---------------------------- MODULE Spec2Model ----------------------------
(***************************************************************************)
(* Model of the request-dispatch pipeline of copilot-api:                   *)
(*   - the response cache (src/src/lib/intervals.ts, request-cache part),   *)
(*   - the retry helper withRetry (src/src/lib/retry.ts),                   *)
(*   - the streaming translator (src/src/routes/messages/                   *)
(*     stream-translation.ts).                                              *)
(* Each component has its own next-state relation and specification; the    *)
(* variables of the other components stay at their initial values.          *)
(***************************************************************************)
EXTENDS Integers, Sequences, FiniteSets, TLC

VARIABLES
  \* ---- response cache (module-level state of the request cache) ----
  cache,        \* Map<string, CacheEntry>: function from the cached keys
  lruNodes,     \* Map<string, LRUNode>: key -> [prev, next] (node = its key)
  lruHead,      \* most recently used node, or Null
  lruTail,      \* least recently used node, or Null
  cacheConfig,  \* [enabled, maxSize, ttlSeconds]
  hits, misses, savedTokens, isDirty,
  now,          \* Date.now(), in milliseconds
  accessOrder,  \* history: cached keys, most recently accessed first
  lastPut,      \* history: key -> last payload put and not removed since
  ret,          \* history: the last cache operation and what it returned
  \* ---- withRetry (one call in progress) ----
  rpc,          \* position of the call: idle, calling, sleeping, returned, thrown
  opts,         \* the merged options of the call
  attempt,      \* loop variable of withRetry
  lastError,    \* local variable lastError
  outcome,      \* the value returned or the error thrown to the caller
  rlog,         \* history: fn invocations, fn's value, onRetry calls and sleeps, in order
  errs,         \* history: the errors fn threw, in order
  deadlines,    \* history: the attempts whose fn failed by a fetchWithTimeout deadline
  \* ---- streaming translator (one connection) ----
  state,        \* AnthropicStreamState
  events,       \* history: every event emitted on the connection, in order
  chunksFed,    \* history: number of chunks translated so far
  fed,          \* history: the chunks translated so far, in arrival order
  finishedAt,   \* history: Len(events) when the first finish reason was translated, or -1
  \* ---- checkRateLimit (the pacing fields of the server state) ----
  rateState,    \* [rateLimitSeconds, rateLimitWait, lastRequestTimestamp]
  clock,        \* Date.now(), in milliseconds, as read by checkRateLimit
  callers,      \* per request: position in checkRateLimit and history of the call
  \* ---- account-pool store (module-level state) and the token dispatch ----
  poolState,            \* PoolState: [accounts]
  poolConfig,           \* PoolConfig: [enabled]
  cachedActiveAccounts, \* [cached, list]: cached = FALSE stands for null
  poolFile,             \* the pool document on disk: [exists, state, enabled, ver]
  saveDebounceTimer,    \* [armed, at]: the pending debounce timeout and its time
  pendingSave,
  writes,               \* the saves in progress: [kind, stage, state, enabled, ver]
  pclock,               \* the time of the pool store's timers, in milliseconds
  copilotToken,         \* state.copilotToken, or Null
  mutations,            \* history: number of setPoolState calls so far
  poolRet,              \* history: the last call of the store or dispatch and its result
  saveHist,             \* history of the saves, see SaveHistInit
  \* ---- persistence of the response cache ----
  cacheKeys,    \* the keys of the Map cache in insertion order
  cacheFile,    \* the cache document on disk: [exists, entries, stats]
  cacheWrites,  \* the saveCache writes in progress
  restarts,     \* history: number of process restarts
  saves,        \* history: number of saveCache calls that began a write
  sinceSave,    \* history: [ops, fails, failed]: whether a cache operation ran,
                \* and whether a write failed, since the last save that succeeded
                \* began; failed: the saves of this process whose write failed
  \* ---- calculateDelay, as withRetry's catch block calls it ----
  delayOpts,    \* [initialDelayMs, maxDelayMs, backoffMultiplier] of the call
  lastDelay,    \* history: the last delay computed: [attempt, random, delay]
  \* ---- setupCopilotToken: the refresh timer and its cycles ----
  refreshTimer, \* TRUE once setInterval has armed the refresh timer
  cycles,       \* the runs of the timer's callback, in the order they began
  \* ---- graceful shutdown (module-level state of shutdown.ts) ----
  handlers,       \* Array<ShutdownHandler>: [id, priority], id = order of registration
  isShuttingDown,
  sd,             \* gracefulShutdown's run: [pc, idx, cur, timer]; idx counts from 1
  exitCode,       \* the code process.exit was called with, or -1
  ran,            \* history: the handlers called, with how each one settled
  owed,           \* history: ids that followed a failing handler when it failed
  signals,        \* history: number of gracefulShutdown calls
  \* ---- ensurePoolStateLoaded and its concurrent callers ----
  poolStateLoaded,
  loaders,        \* caller -> idle, loading (at the await of loadPoolState) or done
  ensureHist      \* history: [reads, registered, overwrote]: reads of the pool
                  \* file, registrations of the account-pool handler, and whether
                  \* a load assigned poolState after the state was marked loaded
  ,
  \* ---- interval registry (module-level state of intervals.ts) ----
  intervals,      \* Map<string, interval>: name -> timer (its position in timers)
  timers,         \* every timer setInterval returned: [live, names]; names is
                  \* history: the names it was registered under
  registryHist    \* history: the last registry operation

cacheVars  == <<cache, lruNodes, lruHead, lruTail, cacheConfig, hits, misses,
                savedTokens, isDirty, now, accessOrder, lastPut, ret>>
retryVars  == <<rpc, opts, attempt, lastError, outcome, rlog, errs, deadlines>>
streamVars == <<state, events, chunksFed, fed, finishedAt>>
rateVars   == <<rateState, clock, callers>>
poolVars   == <<poolState, poolConfig, cachedActiveAccounts, poolFile,
                saveDebounceTimer, pendingSave, writes, pclock, copilotToken,
                mutations, poolRet, saveHist>>
persistVars == <<cacheKeys, cacheFile, cacheWrites, restarts, saves, sinceSave>>
delayVars  == <<delayOpts, lastDelay>>
\* the components added to the model after the first six
refreshVars == <<refreshTimer, cycles>>
shutdownVars == <<handlers, isShuttingDown, sd, exitCode, ran, owed, signals>>
ensureVars == <<poolStateLoaded, loaders, ensureHist>>
registryVars == <<intervals, timers, registryHist>>
laterVars  == <<delayVars, refreshVars, shutdownVars, ensureVars, registryVars>>
vars       == <<cacheVars, retryVars, streamVars, rateVars, poolVars, persistVars,
                laterVars>>
\* what the actions of one component leave unchanged
\* (the cache operations are also steps of the persistence component, which
\* tracks the insertion order of the Map: notCacheVars leaves persistVars out)
notCacheVars  == <<retryVars, streamVars, rateVars, poolVars, laterVars>>
notRetryVars  == <<cacheVars, streamVars, rateVars, poolVars, persistVars, laterVars>>
notStreamVars == <<cacheVars, retryVars, rateVars, poolVars, persistVars, laterVars>>
notRateVars   == <<cacheVars, retryVars, streamVars, poolVars, persistVars, laterVars>>
notPoolVars   == <<cacheVars, retryVars, streamVars, rateVars, persistVars, laterVars>>
firstVars     == <<cacheVars, retryVars, streamVars, rateVars, poolVars, persistVars>>
notDelayVars  == <<firstVars, refreshVars, shutdownVars, ensureVars, registryVars>>
notShutdownVars == <<firstVars, delayVars, refreshVars, ensureVars, registryVars>>
notRegistryVars == <<firstVars, delayVars, refreshVars, shutdownVars, ensureVars>>
\* the token refresh writes state.copilotToken and nothing else of the pool
notRefreshVars ==
  <<cacheVars, retryVars, streamVars, rateVars, persistVars, delayVars,
    shutdownVars, ensureVars, registryVars, poolState, poolConfig, cachedActiveAccounts, poolFile, saveDebounceTimer,
    pendingSave, writes, pclock, mutations, poolRet, saveHist>>

Null == "null"

(***************************************************************************)
(* Bounds of the model.                                                     *)
(***************************************************************************)
MaxTicks    == 2   \* the clock runs up to this many seconds
MaxLookups  == 2   \* getCachedResponse calls counted by hits + misses
MaxAttempts == 3   \* largest maxAttempts option tried
MaxChunks   == 4   \* chunks fed to one connection
MaxRateTicks == 6  \* half seconds the pacing clock advances
MaxRestarts == 1   \* process restarts that load the cache file
MaxSaves == 3      \* saveCache calls that begin a write
MaxSavesBeforeRestart == 1  \* of these, the ones explored together with a restart
MaxMutations == 2  \* setPoolState calls
MaxPoolTicks == 3  \* quarter seconds the pool store's clock advances
MaxCycles == 2     \* runs of the token refresh timer's callback
MaxHandlers == 3   \* shutdown handlers registered
MaxSignals == 2    \* termination signals delivered


(***************************************************************************)
(* Response cache: inputs.                                                  *)
(***************************************************************************)
Keys        == {"k1", "k2", "k3"}
\* what a caller stores: the response with its token counts
Payloads    == { [response |-> "r1", inputTokens |-> 1, outputTokens |-> 2],
                 [response |-> "r2", inputTokens |-> 3, outputTokens |-> 1] }
MaxSizes    == {1, 2}
TtlSeconds  == {1}
\* time that passes before a lookup or a store runs, in milliseconds
ClockSteps  == {0, 1000}

\* Map.delete on a function
MapDelete(m, k) == [x \in (DOMAIN m) \ {k} |-> m[x]]
\* Map.set on a function
MapSet(m, k, v) == [x \in (DOMAIN m) \cup {k} |-> IF x = k THEN v ELSE m[x]]
EmptyMap == [x \in {} |-> Null]

\* The recency list as a value: the node map with the two end pointers.
LRU(nodes, head, tail) == [nodes |-> nodes, head |-> head, tail |-> tail]
CurLRU == LRU(lruNodes, lruHead, lruTail)

\* field updates that follow the code's "if (x) x.f = v"
SetNext(nodes, k, v) == IF k # Null /\ k \in DOMAIN nodes
                        THEN [nodes EXCEPT ![k].next = v] ELSE nodes
SetPrev(nodes, k, v) == IF k # Null /\ k \in DOMAIN nodes
                        THEN [nodes EXCEPT ![k].prev = v] ELSE nodes

moveToFront_Noop(L, k) == L

moveToFront(L, k) ==
  IF k = L.head THEN L
  ELSE LET n  == L.nodes[k]
           f1 == SetNext(L.nodes, n.prev, n.next)
           f2 == SetPrev(f1, n.next, n.prev)
           t1 == IF k = L.tail THEN n.prev ELSE L.tail
           f3 == [f2 EXCEPT ![k] = [prev |-> Null, next |-> L.head]]
           f4 == SetPrev(f3, L.head, k)
       IN  LRU(f4, k, IF t1 = Null THEN k ELSE t1)

addToFront(L, k) ==
  LET f1 == SetPrev(L.nodes, L.head, k)
  IN  LRU(MapSet(f1, k, [prev |-> Null, next |-> L.head]), k,
          IF L.tail = Null THEN k ELSE L.tail)

\* a removeTail that takes the most recently used node instead
removeTail_Head(L) ==
  IF L.head = Null THEN [key |-> Null, lru |-> L]
  ELSE LET k == L.head
           n == L.nodes[k]
           f == MapDelete(L.nodes, k)
       IN  IF n.next # Null
           THEN [key |-> k, lru |-> LRU(SetPrev(f, n.next, Null), n.next, L.tail)]
           ELSE [key |-> k, lru |-> LRU(f, Null, Null)]

\* returns the removed key (or Null) with the list after the removal
removeTail(L) ==
  IF L.tail = Null THEN [key |-> Null, lru |-> L]
  ELSE LET k == L.tail
           n == L.nodes[k]
           f == MapDelete(L.nodes, k)
       IN  IF n.prev # Null
           THEN [key |-> k, lru |-> LRU(SetNext(f, n.prev, Null), L.head, n.prev)]
           ELSE [key |-> k, lru |-> LRU(f, Null, Null)]

\* a removeNode that leaves the tail pointer as it is
removeNode_KeepTail(L, k) ==
  IF k \notin DOMAIN L.nodes THEN L
  ELSE LET n  == L.nodes[k]
           f1 == SetNext(L.nodes, n.prev, n.next)
           f2 == SetPrev(f1, n.next, n.prev)
       IN  LRU(MapDelete(f2, k), IF k = L.head THEN n.next ELSE L.head, L.tail)

removeNode(L, k) ==
  IF k \notin DOMAIN L.nodes THEN L
  ELSE LET n  == L.nodes[k]
           f1 == SetNext(L.nodes, n.prev, n.next)
           f2 == SetPrev(f1, n.next, n.prev)
       IN  LRU(MapDelete(f2, k),
               IF k = L.head THEN n.next ELSE L.head,
               IF k = L.tail THEN n.prev ELSE L.tail)

resetLRU == LRU(EmptyMap, Null, Null)

\* evictLRU on s = [cache, lru, dirty, evicted]: the while loop of the code;
\* evicted collects the keys removeTail returned.
RECURSIVE evictLRU(_, _)
evictLRU(s, maxSize) ==
  IF Cardinality(DOMAIN s.cache) > maxSize
  THEN LET r == removeTail(s.lru)
       IN  IF r.key # Null
           THEN evictLRU([cache   |-> MapDelete(s.cache, r.key),
                          lru     |-> r.lru,
                          dirty   |-> TRUE,
                          evicted |-> Append(s.evicted, r.key)], maxSize)
           ELSE s
  ELSE s

IsExpired_Geq(entry, t, cfg) == t - entry.createdAt >= cfg.ttlSeconds * 1000

IsExpired_SinceAccess(entry, t, cfg) == t - entry.lastAccessed > cfg.ttlSeconds * 1000

\* now - entry.createdAt > ttlMs
IsExpired(entry, t, cfg) == t - entry.createdAt > cfg.ttlSeconds * 1000


\* history helpers (not program state)
Without(seq, k) == SelectSeq(seq, LAMBDA x : x # k)
Touch(seq, k)   == <<k>> \o Without(seq, k)
Kept(seq, c)    == SelectSeq(seq, LAMBDA x : x \in DOMAIN c)
LeastRecent     == IF accessOrder = <<>> THEN Null ELSE accessOrder[Len(accessOrder)]
InSeq(seq, k)   == \E i \in 1..Len(seq) : seq[i] = k
NoPut           == [present |-> FALSE, response |-> Null, createdAt |-> 0]
Put(resp, t)    == [present |-> TRUE, response |-> resp, createdAt |-> t]
\* the record of an operation: what it was, what it returned (hit, response),
\* the keys evictLRU removed, and facts of the state it started from
Ret(op, k, hit, resp, ev) ==
  [op |-> op, key |-> k, hit |-> hit, response |-> resp, evicted |-> ev,
   lruBefore  |-> LeastRecent,
   hitsBefore |-> IF k \in DOMAIN cache THEN cache[k].hits ELSE -1,
   afterHitOn |-> IF ret.op = "get" /\ ret.hit /\ ret.key = ret.lruBefore
                  THEN ret.key ELSE Null]
Times == {t \in {now + d : d \in ClockSteps} : t <= MaxTicks * 1000}

\* the module state after initCache() with cacheEnabled = true,
\* cacheMaxSize = 2, cacheTtlSeconds = 1 and no cache file on disk
CacheInit ==
  /\ cache = EmptyMap
  /\ lruNodes = EmptyMap /\ lruHead = Null /\ lruTail = Null
  /\ cacheConfig = [enabled |-> TRUE, maxSize |-> 2, ttlSeconds |-> 1]
  /\ hits = 0 /\ misses = 0 /\ savedTokens = 0 /\ isDirty = FALSE
  /\ now = 0
  /\ accessOrder = <<>>
  /\ lastPut = [k \in Keys |-> NoPut]
  /\ ret = [op |-> "init", key |-> Null, hit |-> FALSE, response |-> Null,
            evicted |-> <<>>, lruBefore |-> Null, hitsBefore |-> -1,
            afterHitOn |-> Null]

tokensOf_Output(entry) == entry.outputTokens

\* the tokens a hit on the entry saves: entry.inputTokens + entry.outputTokens
tokensOf(entry) == entry.inputTokens + entry.outputTokens

\* getCachedResponse(key) called when Date.now() = t
getCachedResponse(k, t) ==
  /\ hits + misses < MaxLookups
  /\ t \in Times
  /\ now' = t
  /\ UNCHANGED notCacheVars
  /\ IF ~cacheConfig.enabled
     THEN /\ ret' = Ret("get", k, FALSE, Null, <<>>)
          /\ UNCHANGED <<cache, lruNodes, lruHead, lruTail, hits, misses,
                         savedTokens, isDirty, accessOrder, lastPut>>
     ELSE IF k \notin DOMAIN cache
     THEN /\ misses' = misses + 1
          /\ ret' = Ret("get", k, FALSE, Null, <<>>)
          /\ lastPut' = lastPut
          /\ UNCHANGED <<cache, lruNodes, lruHead, lruTail, hits,
                         savedTokens, isDirty, accessOrder>>
     ELSE IF IsExpired(cache[k], t, cacheConfig)
     THEN LET L == removeNode(CurLRU, k)
          IN  /\ cache' = MapDelete(cache, k)
              /\ lruNodes' = L.nodes /\ lruHead' = L.head /\ lruTail' = L.tail
              /\ misses' = misses + 1
              /\ isDirty' = TRUE
              /\ ret' = Ret("get", k, FALSE, Null, <<>>)
              /\ accessOrder' = Kept(accessOrder, cache')
              /\ lastPut' = [lastPut EXCEPT ![k] = NoPut]
              /\ UNCHANGED <<hits, savedTokens>>
     ELSE LET e == cache[k]
              L == IF k \in DOMAIN lruNodes THEN moveToFront(CurLRU, k) ELSE CurLRU
          IN  /\ cache' = [cache EXCEPT ![k].lastAccessed = t, ![k].hits = e.hits + 1]
              /\ hits' = hits + 1
              /\ savedTokens' = savedTokens + tokensOf(e)
              /\ isDirty' = TRUE
              /\ lruNodes' = L.nodes /\ lruHead' = L.head /\ lruTail' = L.tail
              /\ ret' = Ret("get", k, TRUE, e.response, <<>>)
              /\ accessOrder' = Touch(accessOrder, k)
              /\ UNCHANGED <<misses, lastPut>>
  /\ UNCHANGED cacheConfig

\* an entry that starts with one hit counted
newEntry_Counted(p, t) ==
  [response |-> p.response, inputTokens |-> p.inputTokens,
   outputTokens |-> p.outputTokens, createdAt |-> t, lastAccessed |-> t, hits |-> 1]

\* const entry: CacheEntry = {..., createdAt: now, lastAccessed: now, hits: 0}
newEntry(p, t) ==
  [response |-> p.response, inputTokens |-> p.inputTokens,
   outputTokens |-> p.outputTokens, createdAt |-> t, lastAccessed |-> t, hits |-> 0]

\* setCachedResponse({key, response, inputTokens, outputTokens}) at Date.now() = t
setCachedResponse(k, p, t) ==
  /\ t \in Times
  /\ now' = t
  /\ UNCHANGED notCacheVars
  /\ IF ~cacheConfig.enabled
     THEN /\ ret' = Ret("set", k, FALSE, Null, <<>>)
          /\ UNCHANGED <<cache, lruNodes, lruHead, lruTail, isDirty, accessOrder, lastPut>>
     ELSE LET entry == newEntry(p, t)
              L1 == IF k \in DOMAIN cache
                    THEN (IF k \in DOMAIN lruNodes THEN moveToFront(CurLRU, k) ELSE CurLRU)
                    ELSE addToFront(CurLRU, k)
              s  == evictLRU([cache |-> MapSet(cache, k, entry), lru |-> L1,
                              dirty |-> TRUE, evicted |-> <<>>], cacheConfig.maxSize)
          IN  /\ cache' = s.cache
              /\ lruNodes' = s.lru.nodes /\ lruHead' = s.lru.head /\ lruTail' = s.lru.tail
              /\ isDirty' = s.dirty
              /\ ret' = Ret("set", k, FALSE, Null, s.evicted)
              /\ accessOrder' = Kept(Touch(accessOrder, k), cache')
              /\ lastPut' = [x \in Keys |->
                               IF InSeq(s.evicted, x) THEN NoPut
                               ELSE IF x = k THEN Put(p.response, t)
                               ELSE lastPut[x]]
  /\ UNCHANGED <<cacheConfig, hits, misses, savedTokens>>

\* deleteCacheEntry(key)
deleteCacheEntry(k) ==
  /\ now' = now
  /\ UNCHANGED notCacheVars
  /\ IF k \in DOMAIN cache
     THEN LET L == removeNode(CurLRU, k)
          IN  /\ cache' = MapDelete(cache, k)
              /\ lruNodes' = L.nodes /\ lruHead' = L.head /\ lruTail' = L.tail
              /\ isDirty' = TRUE
              /\ ret' = Ret("delete", k, TRUE, Null, <<>>)
     ELSE /\ ret' = Ret("delete", k, FALSE, Null, <<>>)
          /\ UNCHANGED <<cache, lruNodes, lruHead, lruTail, isDirty>>
  /\ accessOrder' = Kept(accessOrder, cache')
  /\ lastPut' = [lastPut EXCEPT ![k] = NoPut]
  /\ UNCHANGED <<cacheConfig, hits, misses, savedTokens>>

\* clearCache()
clearCache ==
  /\ now' = now
  /\ UNCHANGED notCacheVars
  /\ cache' = EmptyMap
  /\ lruNodes' = resetLRU.nodes /\ lruHead' = resetLRU.head /\ lruTail' = resetLRU.tail
  /\ isDirty' = TRUE
  /\ ret' = Ret("clear", Null, FALSE, Null, <<>>)
  /\ accessOrder' = <<>>
  /\ lastPut' = [k \in Keys |-> NoPut]
  /\ UNCHANGED <<cacheConfig, hits, misses, savedTokens>>

\* updateCacheConfig(config): cfg is the merged configuration
updateCacheConfig(cfg) ==
  /\ now' = now
  /\ UNCHANGED notCacheVars
  /\ cacheConfig' = cfg
  /\ LET c0 == IF ~cfg.enabled THEN EmptyMap ELSE cache
         L0 == IF ~cfg.enabled THEN resetLRU ELSE CurLRU
         s  == evictLRU([cache |-> c0, lru |-> L0, dirty |-> isDirty,
                         evicted |-> <<>>], cfg.maxSize)
     IN  /\ cache' = s.cache
         /\ lruNodes' = s.lru.nodes /\ lruHead' = s.lru.head /\ lruTail' = s.lru.tail
         /\ isDirty' = s.dirty
         /\ ret' = Ret("config", Null, FALSE, Null, s.evicted)
         /\ accessOrder' = Kept(accessOrder, cache')
         /\ lastPut' = [x \in Keys |->
                          IF ~cfg.enabled \/ InSeq(s.evicted, x) THEN NoPut ELSE lastPut[x]]
  /\ UNCHANGED <<hits, misses, savedTokens>>

\* getCacheStats(); hitRate is given in hundredths (Math.round(x * 100))
getCacheStats ==
  LET total == hits + misses
  IN  [enabled |-> cacheConfig.enabled,
       size |-> Cardinality(DOMAIN cache),
       maxSize |-> cacheConfig.maxSize,
       hits |-> hits,
       misses |-> misses,
       hitRate |-> IF total > 0 THEN (200 * hits + total) \div (2 * total) ELSE 0,
       savedTokens |-> savedTokens]

ConfigChoices == [enabled : BOOLEAN, maxSize : MaxSizes, ttlSeconds : TtlSeconds]
NextTimes == {now + d : d \in ClockSteps}

CacheNext ==
  \/ \E t \in NextTimes, k \in Keys : getCachedResponse(k, t) /\ UNCHANGED persistVars
  \/ \E t \in NextTimes, k \in Keys, p \in Payloads :
        setCachedResponse(k, p, t) /\ UNCHANGED persistVars
  \/ \E k \in Keys : deleteCacheEntry(k) /\ UNCHANGED persistVars
  \/ clearCache /\ UNCHANGED persistVars
  \/ \E cfg \in ConfigChoices : updateCacheConfig(cfg) /\ UNCHANGED persistVars

(***************************************************************************)
(* Persistence of the response cache: saveCache, loadCache and a restart    *)
(* of the process (src/src/lib/intervals.ts, lines 472-533 and 705-734).    *)
(* An entry on disk is [key, e]; a write in progress holds the entries      *)
(* array captured by saveCache, whose elements are the entry objects of the *)
(* cache: until JSON.stringify runs, a hit on an entry that is still cached *)
(* (alive) shows in the array.                                              *)
(***************************************************************************)
NoStats == [hits |-> 0, misses |-> 0, savedTokens |-> 0]
\* form: "missing" (readFile rejects), "unparsable" (JSON.parse throws),
\* "wrongShape" (parsed, but entries is no array of entries: filter throws)
\* or "document" (what saveCache writes)
NoCacheFile ==
  [exists |-> FALSE, form |-> "missing", entries |-> << >>, stats |-> NoStats]
\* an entry of a file: what setCachedResponse stored at createdAt and a last
\* hit left at lastAccessed
FileEntry(k, createdAt, lastAccessed, nhits) ==
  [key |-> k, e |-> [response |-> "r1", inputTokens |-> 1, outputTokens |-> 2,
                     createdAt |-> createdAt, lastAccessed |-> lastAccessed,
                     hits |-> nhits]]
\* the wrongShape file holds an entry followed by a null
BadCacheFiles ==
  { NoCacheFile,
    [exists |-> TRUE, form |-> "unparsable", entries |-> << >>, stats |-> NoStats],
    [exists |-> TRUE, form |-> "wrongShape",
     entries |-> << FileEntry("k1", 1000, 1000, 0) >>, stats |-> NoStats] }
\* documents an earlier process saved
SavedCacheFiles ==
  { [exists |-> TRUE, form |-> "document",
     entries |-> << FileEntry("k1", 1000, 1000, 0) >>, stats |-> NoStats],
    [exists |-> TRUE, form |-> "document",
     entries |-> << FileEntry("k1", 0, 0, 0), FileEntry("k2", 1000, 1000, 0) >>,
     stats |-> NoStats],
    [exists |-> TRUE, form |-> "document",
     entries |-> << FileEntry("k2", 1000, 2000, 1), FileEntry("k3", 1000, 1000, 0),
                    FileEntry("k1", 1000, 2000, 1) >>,
     stats |-> [hits |-> 1, misses |-> 0, savedTokens |-> 3]] }
\* a loadCache that takes every existing file for a saved document
readsAsDocument_Exists(doc) == doc.exists
\* whether the try block of loadCache runs to its end on the file
readsAsDocument(doc) == doc.exists /\ doc.form = "document"

PersistInit ==
  /\ cacheKeys = << >>
  /\ cacheFile = NoCacheFile
  /\ cacheWrites = {}
  /\ restarts = 0
  /\ saves = 0
  /\ sinceSave = [ops |-> FALSE, fails |-> FALSE, failed |-> {}]

\* Array.from(cache.values()), with the key of each entry
EntriesOf(keys, c) == [i \in 1..Len(keys) |-> [key |-> keys[i], e |-> c[keys[i]]]]

\* the arrays of the writes in progress after a cache operation that made
\* new objects for the keys in replaced and left the cache c
Realias(ws, replaced, c) ==
  { IF w.stage # "ensureDir" THEN w
    ELSE LET alive == {k \in w.alive : k \in DOMAIN c /\ k \notin replaced}
         IN  [w EXCEPT !.alive = alive,
                       !.objs = [k \in DOMAIN w.objs |->
                                   IF k \in alive THEN c[k] ELSE w.objs[k]]] : w \in ws }
\* history: a cache operation ran while the writes ws were in progress
OpsAfter(ws) == {[w EXCEPT !.opsAfter = TRUE] : w \in ws}
\* history: a write failed while the writes ws were in progress
FailAfter(ws) == {[w EXCEPT !.failAfter = TRUE] : w \in ws}

\* Array.prototype.sort((a, b) => a.lastAccessed - b.lastAccessed): stable
RECURSIVE sortByLastAccessed(_)
sortByLastAccessed(entries) ==
  IF entries = << >> THEN << >>
  ELSE LET n == Len(entries)
           x == entries[n]
           sorted == sortByLastAccessed(SubSeq(entries, 1, n - 1))
           m == Cardinality({i \in 1..Len(sorted) :
                               sorted[i].e.lastAccessed <= x.e.lastAccessed})
       IN  SubSeq(sorted, 1, m) \o << x >> \o SubSeq(sorted, m + 1, Len(sorted))

\* for (const entry of validEntries) { cache.set(entry.key, entry); addToFront(entry.key) }
RECURSIVE loadEntries(_, _)
loadEntries(s, entries) ==
  IF entries = << >> THEN s
  ELSE LET x == Head(entries)
       IN  loadEntries([cache |-> MapSet(s.cache, x.key, x.e),
                        lru |-> addToFront(s.lru, x.key),
                        keys |-> IF x.key \in DOMAIN s.cache THEN s.keys
                                 ELSE Append(s.keys, x.key)],
                       Tail(entries))

\* now - entry.createdAt < ttlMs
isValidOnLoad(entry, t, cfg) == t - entry.createdAt < cfg.ttlSeconds * 1000

\* loadCache() at Date.now() = t: the cache, the recency list and the Map
\* order it builds from the document doc
loadCache(doc, t, cfg) ==
  IF ~readsAsDocument(doc)
  THEN [cache |-> EmptyMap, lru |-> resetLRU, keys |-> << >>]
  ELSE loadEntries([cache |-> EmptyMap, lru |-> resetLRU, keys |-> << >>],
                   sortByLastAccessed(
                     SelectSeq(doc.entries, LAMBDA x : isValidOnLoad(x.e, t, cfg))))

\* setCachedResponse, with the Map order and the arrays of writes in progress
PersistSet(k, p, t) ==
  /\ setCachedResponse(k, p, t)
  /\ cacheKeys' = Kept(IF k \in DOMAIN cache \/ ~cacheConfig.enabled
                        THEN cacheKeys ELSE Append(cacheKeys, k), cache')
  /\ cacheWrites' = OpsAfter(Realias(cacheWrites, {k}, cache'))
  /\ sinceSave' = [sinceSave EXCEPT !.ops = TRUE]
  /\ UNCHANGED <<cacheFile, restarts, saves>>

\* getCachedResponse, with the Map order and the arrays of writes in progress
PersistGet(k, t) ==
  /\ getCachedResponse(k, t)
  /\ cacheKeys' = Kept(cacheKeys, cache')
  /\ cacheWrites' = OpsAfter(Realias(cacheWrites, {}, cache'))
  /\ sinceSave' = [sinceSave EXCEPT !.ops = TRUE]
  /\ UNCHANGED <<cacheFile, restarts, saves>>

writeStarted_Always(dirty) == TRUE

\* if (!isDirty) return
writeStarted(dirty) == dirty

\* saveCache(): returns at once when the flag is clear; otherwise captures
\* the entries array and the stats, clears the flag and begins ensureDir()
SaveCache ==
  /\ UNCHANGED notCacheVars
  /\ ret' = Ret("save", Null, writeStarted(isDirty), Null, << >>)
  /\ IF writeStarted(isDirty)
     THEN /\ saves < MaxSaves
          /\ saves' = saves + 1
          /\ isDirty' = FALSE
          /\ cacheWrites' = cacheWrites \cup
               {[stage |-> "ensureDir", keys |-> cacheKeys, objs |-> cache,
                 alive |-> DOMAIN cache, entries |-> << >>,
                 stats |-> [hits |-> hits, misses |-> misses, savedTokens |-> savedTokens],
                 n |-> saves + 1, opsAfter |-> FALSE, failAfter |-> FALSE]}
     ELSE UNCHANGED <<saves, isDirty, cacheWrites>>
  /\ UNCHANGED <<cache, lruNodes, lruHead, lruTail, cacheConfig, hits, misses,
                 savedTokens, now, accessOrder, lastPut>>
  /\ UNCHANGED <<cacheKeys, cacheFile, restarts, sinceSave>>

\* ensureDir() of the write w has settled: JSON.stringify(data) and fs.writeFile
CacheWriteStarts(w) ==
  /\ UNCHANGED notCacheVars
  /\ w \in cacheWrites /\ w.stage = "ensureDir"
  /\ cacheWrites' = (cacheWrites \ {w}) \cup
       {[w EXCEPT !.stage = "writing", !.entries = EntriesOf(w.keys, w.objs),
                  !.alive = {}]}
  /\ UNCHANGED cacheVars
  /\ UNCHANGED <<cacheKeys, cacheFile, restarts, saves, sinceSave>>

\* fs.writeFile of the write w resolves
CacheWriteDone(w) ==
  /\ UNCHANGED notCacheVars
  /\ w \in cacheWrites /\ w.stage = "writing"
  /\ cacheWrites' = cacheWrites \ {w}
  /\ cacheFile' = [exists |-> TRUE, form |-> "document", entries |-> w.entries,
                    stats |-> w.stats]
  /\ sinceSave' = [sinceSave EXCEPT !.ops = w.opsAfter, !.fails = w.failAfter]
  /\ UNCHANGED cacheVars
  /\ UNCHANGED <<cacheKeys, restarts, saves>>

\* ensureDir() or fs.writeFile of the write w rejects: isDirty = true
CacheWriteFails(w) ==
  /\ UNCHANGED notCacheVars
  /\ w \in cacheWrites
  /\ cacheWrites' = FailAfter(cacheWrites \ {w})
  /\ sinceSave' = [sinceSave EXCEPT !.fails = TRUE, !.failed = @ \cup {w.n}]
  /\ isDirty' = TRUE
  /\ UNCHANGED <<cache, lruNodes, lruHead, lruTail, cacheConfig, hits, misses,
                 savedTokens, now, accessOrder, lastPut, ret>>
  /\ UNCHANGED <<cacheKeys, cacheFile, restarts, saves>>

\* initCache() of a new process, with the same configuration, at
\* Date.now() = t and with the file doc on disk: the module state is initial
\* again and loadCache() reads the file
initCache(doc, t) ==
  /\ UNCHANGED notCacheVars
  /\ restarts < MaxRestarts
  /\ cacheWrites = {}
  /\ cacheConfig.enabled
  /\ t \in Times
  /\ now' = t
  /\ restarts' = restarts + 1
  /\ LET r == loadCache(doc, t, cacheConfig)
         order == [i \in 1..Len(r.keys) |-> r.keys[Len(r.keys) + 1 - i]]
     IN  /\ cache' = r.cache
         /\ lruNodes' = r.lru.nodes /\ lruHead' = r.lru.head /\ lruTail' = r.lru.tail
         /\ cacheKeys' = r.keys
         /\ accessOrder' = order
         /\ lastPut' = [k \in Keys |->
                          IF k \in DOMAIN r.cache
                          THEN Put(r.cache[k].response, r.cache[k].createdAt)
                          ELSE NoPut]
  /\ hits' = IF readsAsDocument(doc) THEN doc.stats.hits ELSE 0
  /\ misses' = IF readsAsDocument(doc) THEN doc.stats.misses ELSE 0
  /\ savedTokens' = IF readsAsDocument(doc) THEN doc.stats.savedTokens ELSE 0
  /\ isDirty' = FALSE
  /\ sinceSave' = [ops |-> FALSE, fails |-> FALSE, failed |-> {}]
  /\ ret' = Ret("load", Null, FALSE, Null, << >>)
  /\ UNCHANGED <<cacheConfig, cacheWrites, saves>>

\* the process ends with no write in progress and a new one starts on the
\* file the old one left
Restart(t) ==
  /\ initCache(cacheFile, t)
  /\ UNCHANGED cacheFile

\* the keys and the payload used around a save
PersistKeys == {"k1", "k2"}
PersistPayloads == {[response |-> "r1", inputTokens |-> 1, outputTokens |-> 2]}

PersistNext ==
  \/ \E t \in NextTimes, k \in PersistKeys, p \in PersistPayloads : PersistSet(k, p, t)
  \/ \E t \in NextTimes, k \in PersistKeys : PersistGet(k, t)
  \/ saves < MaxSavesBeforeRestart /\ SaveCache
  \/ \E w \in cacheWrites : CacheWriteStarts(w)
  \/ \E w \in cacheWrites : CacheWriteDone(w)
  \/ \E w \in cacheWrites : CacheWriteFails(w)
  \/ \E t \in NextTimes : Restart(t)

\* a new process starts on the file doc
StartOnFile(doc, t) ==
  /\ initCache(doc, t)
  /\ cacheFile' = doc

\* the cache operations and one start of the process on a file
LruNext ==
  \/ \E t \in NextTimes, k \in Keys : getCachedResponse(k, t) /\ UNCHANGED persistVars
  \/ \E t \in NextTimes, k \in Keys, p \in PersistPayloads :
        setCachedResponse(k, p, t) /\ UNCHANGED persistVars
  \/ \E k \in Keys : deleteCacheEntry(k) /\ UNCHANGED persistVars
  \/ clearCache /\ UNCHANGED persistVars
  \/ \E cfg \in ConfigChoices : updateCacheConfig(cfg) /\ UNCHANGED persistVars
  \/ \E t \in NextTimes, doc \in BadCacheFiles \cup SavedCacheFiles : StartOnFile(doc, t)

\* saves and their writes around stores made at one instant
SaveNext ==
  \/ \E k \in PersistKeys, p \in PersistPayloads : PersistSet(k, p, now)
  \/ SaveCache
  \/ \E w \in cacheWrites : CacheWriteStarts(w)
  \/ \E w \in cacheWrites : CacheWriteDone(w)
  \/ \E w \in cacheWrites : CacheWriteFails(w)

(***************************************************************************)
(* withRetry (src/src/lib/retry.ts).                                        *)
(* A thrown value is a record; an absent property is the empty set, a       *)
(* present one the singleton of its value. isObject is false for a thrown   *)
(* primitive (typeof error !== "object", or null).                          *)
(***************************************************************************)
Err(obj, status, rstatus, code, name) ==
  [isObject |-> obj, status |-> status, responseStatus |-> rstatus,
   code |-> code, name |-> name]
Errors ==
  { Err(TRUE, {503}, {}, {}, {"Error"}),
    Err(TRUE, {429}, {}, {}, {"Error"}),
    Err(TRUE, {400}, {}, {}, {"Error"}),
    Err(TRUE, {0}, {}, {}, {"Error"}),
    Err(TRUE, {}, {503}, {}, {"Error"}),
    Err(TRUE, {}, {400}, {}, {"Error"}),
    Err(TRUE, {400}, {503}, {}, {"Error"}),
    Err(TRUE, {}, {}, {"ECONNRESET"}, {"Error"}),
    Err(TRUE, {}, {}, {"EAI_AGAIN"}, {"Error"}),
    Err(TRUE, {}, {}, {"EPIPE"}, {"Error"}),
    Err(TRUE, {}, {}, {}, {"AbortError"}),
    Err(TRUE, {}, {}, {}, {"TimeoutError"}),
    Err(TRUE, {}, {}, {}, {"Error"}),
    Err(FALSE, {}, {}, {}, {}) }
Values == {"v1", "v2"}
Undefined == "undefined"
\* how the call ended: nothing yet, a returned value, or a thrown error
NoOutcome   == [kind |-> "none", val |-> Undefined]
Returned(v) == [kind |-> "value", val |-> v]
Thrown(e)   == [kind |-> "error", val |-> e]

DEFAULT_retryableStatuses == {429, 500, 502, 503, 504}
RetryableChoices == {DEFAULT_retryableStatuses, {503}}
Options == [maxAttempts : 1..MaxAttempts, retryableStatuses : RetryableChoices,
            onRetry : BOOLEAN]

\* JavaScript truthiness of an optional number
Truthy(p) == p # {} /\ p # {0}

isRetryableStatus_Any(error, retryableStatuses) == error.isObject /\ Truthy(error.status)

isRetryableStatus(error, retryableStatuses) ==
  /\ error.isObject
  /\ \/ Truthy(error.status) /\ error.status \subseteq retryableStatuses
     \/ Truthy(error.responseStatus) /\ error.responseStatus \subseteq retryableStatuses

isNetworkError(error) ==
  /\ error.isObject
  /\ \/ error.code \in {{"ECONNRESET"}, {"ECONNREFUSED"}, {"ETIMEDOUT"},
                        {"ENOTFOUND"}, {"EAI_AGAIN"}}
     \/ error.name \in {{"AbortError"}, {"TimeoutError"}}

canRetry_OneLess(a, maxAttempts) == a < maxAttempts - 1

canRetry_Leq(a, maxAttempts) == a <= maxAttempts

\* const canRetry = attempt < opts.maxAttempts
canRetry(a, maxAttempts) == a < maxAttempts

shouldRetry(a, o, error) ==
  canRetry(a, o.maxAttempts)
    /\ (isRetryableStatus(error, o.retryableStatuses) \/ isNetworkError(error))

RetryInit ==
  /\ rpc = "idle"
  /\ opts = [maxAttempts |-> 1, retryableStatuses |-> DEFAULT_retryableStatuses,
             onRetry |-> FALSE]
  /\ attempt = 0
  /\ lastError = Undefined
  /\ outcome = NoOutcome
  /\ rlog = <<>>
  /\ errs = <<>>
  /\ deadlines = {}

\* the for statement's test, and the first thing its body does: invoke fn
LoopTest(a, o, log) ==
  IF a <= o.maxAttempts
  THEN /\ rpc' = "calling"
       /\ rlog' = Append(log, "call")
       /\ outcome' = NoOutcome
  ELSE /\ rpc' = "thrown"
       /\ rlog' = log
       /\ outcome' = Thrown(lastError)

\* withRetry(fn, options) is called: up to the first await (onRetry, when
\* given, is taken not to throw)
WithRetryStart(o) ==
  /\ UNCHANGED notRetryVars
  /\ rpc \in {"idle", "returned", "thrown"}
  /\ opts' = o
  /\ attempt' = 1
  /\ lastError' = Undefined
  /\ errs' = <<>>
  /\ deadlines' = {}
  /\ IF 1 <= o.maxAttempts
     THEN rpc' = "calling" /\ rlog' = <<"call">> /\ outcome' = NoOutcome
     ELSE rpc' = "thrown" /\ rlog' = <<>> /\ outcome' = Thrown(Undefined)

\* fn() resolves with v: return await fn()
FnResolves(v) ==
  /\ UNCHANGED notRetryVars
  /\ rpc = "calling"
  /\ rpc' = "returned"
  /\ outcome' = Returned(v)
  /\ rlog' = Append(rlog, v)
  /\ UNCHANGED <<opts, attempt, lastError, errs, deadlines>>

\* the catch block of withRetry for the error e, up to the throw or the sleep
catchBlock(e) ==
  /\ UNCHANGED notRetryVars
  /\ rpc = "calling"
  /\ lastError' = e
  /\ errs' = Append(errs, e)
  /\ IF ~shouldRetry(attempt, opts, e)
     THEN /\ rpc' = "thrown"
          /\ outcome' = Thrown(e)
          /\ rlog' = rlog
     ELSE /\ rpc' = "sleeping"
          /\ outcome' = NoOutcome
          /\ rlog' = rlog \o (IF opts.onRetry THEN <<"onRetry">> ELSE <<>>) \o <<"sleep">>
  /\ UNCHANGED <<opts, attempt>>

\* fn() rejects with e
FnRejects(e) ==
  /\ catchBlock(e)
  /\ UNCHANGED deadlines

\* what fetchWithTimeout throws when fetch rejects with e: an AbortError is
\* replaced by new Error("Request timeout after ..."), anything else rethrown
AbortError == Err(TRUE, {}, {}, {}, {"AbortError"})
fetchWithTimeout(e) ==
  IF e.isObject /\ e.name = {"AbortError"}
  THEN Err(TRUE, {}, {}, {}, {"Error"})
  ELSE e

\* fn is a fetchWithTimeout call whose deadline passes: the timer aborts the
\* controller, fetch rejects with an AbortError, and fn rejects with what
\* fetchWithTimeout throws for it
FetchDeadline ==
  /\ catchBlock(fetchWithTimeout(AbortError))
  /\ deadlines' = deadlines \cup {attempt}

\* the sleep ends: attempt++, the loop test, and the next fn() or the final throw
SleepDone ==
  /\ UNCHANGED notRetryVars
  /\ rpc = "sleeping"
  /\ attempt' = attempt + 1
  /\ LoopTest(attempt + 1, opts, rlog)
  /\ UNCHANGED <<opts, lastError, errs, deadlines>>

RetryNext ==
  \/ \E o \in Options : WithRetryStart(o)
  \/ \E v \in Values : FnResolves(v)
  \/ \E e \in Errors : FnRejects(e)
  \/ FetchDeadline
  \/ SleepDone


(***************************************************************************)
(* calculateDelay (src/src/lib/retry.ts, lines 93-100), called by the catch *)
(* block of withRetry (lines 133-146) before it sleeps.                     *)
(* Math.random() is given in twentieths (r stands for r/20, 0 <= r < 20),   *)
(* and a delay in hundredths of a millisecond, so that                      *)
(*   delay + delay * 0.2 * (r/20 - 0.5)  =  delay * (90 + r) / 100          *)
(* is computed exactly.                                                     *)
(***************************************************************************)
Randoms == {0, 5, 10, 15, 19}
DelayOptions == [initialDelayMs : {100, 1000}, maxDelayMs : {1500, 30000},
                 backoffMultiplier : {1, 2, 3}]
DEFAULT_delayOptions ==
  [initialDelayMs |-> 1000, maxDelayMs |-> 30000, backoffMultiplier |-> 2]
NoDelay == [attempt |-> 0, random |-> 0, delay |-> 0]

DelayInit ==
  /\ delayOpts = DEFAULT_delayOptions
  /\ lastDelay = NoDelay

\* Math.pow(b, e) for a natural exponent
RECURSIVE Pow(_, _)
Pow(b, e) == IF e = 0 THEN 1 ELSE b * Pow(b, e - 1)

Min(a, b) == IF a <= b THEN a ELSE b

\* calculateDelay({attempt: a, ...o}) with Math.random() = r/20, in
\* hundredths of a millisecond
calculateDelay(a, o, r) ==
  LET delay == o.initialDelayMs * Pow(o.backoffMultiplier, a - 1)
  IN  Min(delay * (90 + r), o.maxDelayMs * 100)

\* withRetry is called with the delay options o
WithDelayOptions(o) ==
  /\ UNCHANGED notDelayVars
  /\ delayOpts' = o
  /\ lastDelay' = NoDelay

\* attempt a < maxAttempts failed with a retryable error: the catch block
\* computes the delay it sleeps, Math.random() returning r/20
Backoff(a, r) ==
  /\ UNCHANGED notDelayVars
  /\ a < MaxAttempts
  /\ lastDelay' = [attempt |-> a, random |-> r, delay |-> calculateDelay(a, delayOpts, r)]
  /\ UNCHANGED delayOpts

DelayNext ==
  \/ \E o \in DelayOptions : WithDelayOptions(o)
  \/ \E a \in 1..MaxAttempts, r \in Randoms : Backoff(a, r)


(***************************************************************************)
(* setupCopilotToken (src/src/lib/token.ts, lines 61-105): the first token  *)
(* exchange, and the callback of the refresh timer. The callback is async:  *)
(* a run that is still retrying when the timer fires again goes on beside   *)
(* the new run. A run is [pc, attempt, log, after]; log is the history of   *)
(* what it did, after the number of runs that had ended when it began.      *)
(***************************************************************************)
MAX_TOKEN_REFRESH_RETRIES == 3
RefreshTokens == {"t1", "t2"}
Did(ev, n, token) == [ev |-> ev, n |-> n, token |-> token]
Ended(cs) == {i \in 1..Len(cs) : cs[i].pc \in {"done", "failed"}}

RefreshInit ==
  /\ refreshTimer = FALSE
  /\ cycles = << >>

\* setupCopilotToken(): getCopilotToken resolves with token (were it to
\* reject, setupCopilotToken rejects and nothing is stored or armed)
SetupCopilotToken(token) ==
  /\ UNCHANGED notRefreshVars
  /\ ~refreshTimer
  /\ copilotToken' = token
  /\ refreshTimer' = TRUE
  /\ UNCHANGED cycles

\* the refresh timer fires: the callback runs up to its first await
RefreshTimerFires ==
  /\ UNCHANGED notRefreshVars
  /\ refreshTimer
  /\ Len(cycles) < MaxCycles
  /\ cycles' = Append(cycles, [pc |-> "exchanging", attempt |-> 1,
                               log |-> << Did("exchange", 1, Null) >>,
                               after |-> Cardinality(Ended(cycles))])
  /\ UNCHANGED <<copilotToken, refreshTimer>>

\* getCopilotToken of run i resolves: updateState("copilotToken", newToken); return
ExchangeSucceeds(i, newToken) ==
  /\ UNCHANGED notRefreshVars
  /\ i \in 1..Len(cycles) /\ cycles[i].pc = "exchanging"
  /\ copilotToken' = newToken
  /\ cycles' = [cycles EXCEPT ![i].pc = "done",
                              ![i].log = Append(@, Did("set", cycles[i].attempt, newToken))]
  /\ UNCHANGED refreshTimer

refreshBackoff_Flat(a) == 5000

\* sleep(attempt * 5000)
refreshBackoff(a) == a * 5000

\* getCopilotToken of run i rejects: the catch block, then either the sleep
\* or attempt++ and the end of the loop
ExchangeFails(i) ==
  /\ UNCHANGED notRefreshVars
  /\ i \in 1..Len(cycles) /\ cycles[i].pc = "exchanging"
  /\ IF cycles[i].attempt < MAX_TOKEN_REFRESH_RETRIES
     THEN cycles' = [cycles EXCEPT
                       ![i].pc = "sleeping",
                       ![i].log = Append(@, Did("sleep", refreshBackoff(cycles[i].attempt),
                                                Null))]
     ELSE cycles' = [cycles EXCEPT ![i].pc = "failed", ![i].attempt = @ + 1]
  /\ UNCHANGED <<copilotToken, refreshTimer>>

\* the sleep of run i ends: attempt++, the loop test, the next getCopilotToken
RefreshSleepDone(i) ==
  /\ UNCHANGED notRefreshVars
  /\ i \in 1..Len(cycles) /\ cycles[i].pc = "sleeping"
  /\ IF cycles[i].attempt + 1 <= MAX_TOKEN_REFRESH_RETRIES
     THEN cycles' = [cycles EXCEPT
                       ![i].pc = "exchanging", ![i].attempt = @ + 1,
                       ![i].log = Append(@, Did("exchange", cycles[i].attempt + 1, Null))]
     ELSE cycles' = [cycles EXCEPT ![i].pc = "failed", ![i].attempt = @ + 1]
  /\ UNCHANGED <<copilotToken, refreshTimer>>

RefreshNext ==
  \/ SetupCopilotToken("t0")
  \/ RefreshTimerFires
  \/ \E i \in 1..MaxCycles, t \in RefreshTokens : ExchangeSucceeds(i, t)
  \/ \E i \in 1..MaxCycles : ExchangeFails(i)
  \/ \E i \in 1..MaxCycles : RefreshSleepDone(i)


(***************************************************************************)
(* Graceful shutdown (src/src/lib/shutdown.ts).                             *)
(* A handler either returns or throws at once, or returns a promise that    *)
(* resolves, rejects or never settles. The for-of loop reads the array by   *)
(* position, so a registration made while a handler is awaited shows in     *)
(* the rest of the loop. Timers and signals run only while gracefulShutdown *)
(* is suspended at "await handler()" on a pending promise.                  *)
(***************************************************************************)
Priorities == {10, 50}

ShutdownInit ==
  /\ handlers = << >>
  /\ isShuttingDown = FALSE
  /\ sd = [pc |-> "idle", idx |-> 0, cur |-> 0, timer |-> FALSE]
  /\ exitCode = -1
  /\ ran = << >>
  /\ owed = {}
  /\ signals = 0

\* handlers.sort((a, b) => a.priority - b.priority): stable
RECURSIVE sortByPriority(_)
sortByPriority(hs) ==
  IF hs = << >> THEN << >>
  ELSE LET n == Len(hs)
           x == hs[n]
           sorted == sortByPriority(SubSeq(hs, 1, n - 1))
           m == Cardinality({i \in 1..Len(sorted) : sorted[i].priority <= x.priority})
       IN  SubSeq(sorted, 1, m) \o << x >> \o SubSeq(sorted, m + 1, Len(sorted))

\* registerShutdownHandler(name, handler, priority)
RegisterShutdownHandler(priority) ==
  /\ UNCHANGED notShutdownVars
  /\ exitCode = -1 /\ sd.pc \in {"idle", "awaiting"}
  /\ Len(handlers) < MaxHandlers
  /\ handlers' = sortByPriority(Append(handlers, [id |-> Len(handlers) + 1,
                                                  priority |-> priority]))
  /\ UNCHANGED <<isShuttingDown, sd, exitCode, ran, owed, signals>>

\* a gracefulShutdown that arms no force-exit timer
LoopAt_NoTimer(i) ==
  IF i <= Len(handlers)
  THEN /\ sd' = [pc |-> "calling", idx |-> i, cur |-> handlers[i].id, timer |-> FALSE]
       /\ exitCode' = -1
  ELSE /\ sd' = [pc |-> "exited", idx |-> i, cur |-> 0, timer |-> FALSE]
       /\ exitCode' = 0

\* the loop of gracefulShutdown at position i: the next handler to call
\* (cur is the handler the iteration read from the array), or,
\* past the end of the array, the finally block: clearTimeout, process.exit(0)
LoopAt(i) ==
  IF i <= Len(handlers)
  THEN /\ sd' = [pc |-> "calling", idx |-> i, cur |-> handlers[i].id, timer |-> TRUE]
       /\ exitCode' = -1
  ELSE /\ sd' = [pc |-> "exited", idx |-> i, cur |-> 0, timer |-> FALSE]
       /\ exitCode' = 0

\* gracefulShutdown(signal): the duplicate-signal return, or the start of
\* the shutdown up to the first handler call
GracefulShutdown ==
  /\ UNCHANGED notShutdownVars
  /\ exitCode = -1 /\ sd.pc \in {"idle", "awaiting"}
  /\ signals < MaxSignals
  /\ signals' = signals + 1
  /\ IF isShuttingDown
     THEN UNCHANGED <<isShuttingDown, sd, exitCode>>
     ELSE /\ isShuttingDown' = TRUE
          /\ LoopAt(1)
  /\ UNCHANGED <<handlers, ran, owed>>

\* the handlers that follow position i in the array
After(i) == {handlers[j].id : j \in (i + 1)..Len(handlers)}

continueAfterFailure_Stop(i) ==
  /\ sd' = [pc |-> "exited", idx |-> i, cur |-> 0, timer |-> FALSE]
  /\ exitCode' = 0

\* catch (error) { consola.error(...) } and on to the next iteration
continueAfterFailure(i) == LoopAt(i + 1)

\* handlers[sd.idx].handler() returns (res = "ok") or throws (res = "failed")
\* at once: the loop goes on in the same turn
HandlerReturns(res) ==
  /\ UNCHANGED notShutdownVars
  /\ sd.pc = "calling"
  /\ ran' = Append(ran, [id |-> sd.cur, res |-> res])
  /\ IF res = "failed"
     THEN owed' = owed \cup After(sd.idx) /\ continueAfterFailure(sd.idx)
     ELSE owed' = owed /\ LoopAt(sd.idx + 1)
  /\ UNCHANGED <<handlers, isShuttingDown, signals>>

\* handlers[sd.idx].handler() returns a promise that is still pending
HandlerPending ==
  /\ UNCHANGED notShutdownVars
  /\ sd.pc = "calling"
  /\ sd' = [sd EXCEPT !.pc = "awaiting"]
  /\ UNCHANGED <<handlers, isShuttingDown, exitCode, ran, owed, signals>>

\* the awaited promise resolves (res = "ok") or rejects (res = "failed")
HandlerSettles(res) ==
  /\ UNCHANGED notShutdownVars
  /\ sd.pc = "awaiting"
  /\ ran' = Append(ran, [id |-> sd.cur, res |-> res])
  /\ IF res = "failed"
     THEN owed' = owed \cup After(sd.idx) /\ continueAfterFailure(sd.idx)
     ELSE owed' = owed /\ LoopAt(sd.idx + 1)
  /\ UNCHANGED <<handlers, isShuttingDown, signals>>

\* the force-exit timer fires while a handler is awaited: process.exit(1)
ForceExit ==
  /\ UNCHANGED notShutdownVars
  /\ sd.pc = "awaiting" /\ sd.timer
  /\ sd' = [sd EXCEPT !.pc = "exited", !.timer = FALSE]
  /\ exitCode' = 1
  /\ UNCHANGED <<handlers, isShuttingDown, ran, owed, signals>>

ShutdownNext ==
  \/ \E p \in Priorities : RegisterShutdownHandler(p)
  \/ GracefulShutdown
  \/ \E res \in {"ok", "failed"} : HandlerReturns(res)
  \/ HandlerPending
  \/ \E res \in {"ok", "failed"} : HandlerSettles(res)
  \/ ForceExit

(***************************************************************************)
(* Streaming translator (src/src/routes/messages/stream-translation.ts).    *)
(* A chunk is [choices, content, tool_calls, finish_reason]: choices is the *)
(* length of chunk.choices, the other fields are those of choices[0]; an    *)
(* absent or null field is Null, an absent tool_calls the empty sequence.   *)
(***************************************************************************)
TC(index, id, name, arguments) ==
  [index |-> index, id |-> id, name |-> name, arguments |-> arguments]
Chunk(n, content, tcs, fr) ==
  [choices |-> n, content |-> content, tool_calls |-> tcs, finish_reason |-> fr]
Chunks ==
  { Chunk(0, Null, <<>>, Null),
    Chunk(1, "", <<>>, Null),
    Chunk(1, "t", <<>>, Null),
    Chunk(1, "u", <<>>, Null),
    Chunk(1, Null, <<TC(0, "call_a", "search", Null)>>, Null),
    Chunk(1, Null, <<TC(1, "call_b", "fetch", Null)>>, Null),
    Chunk(1, Null, <<TC(0, Null, Null, "x")>>, Null),
    Chunk(1, Null, <<TC(0, Null, Null, "z")>>, Null),
    Chunk(1, Null, <<TC(1, Null, Null, "y")>>, Null),
    Chunk(1, Null, <<TC(0, "call_a", "search", "x")>>, Null),
    Chunk(1, Null, <<TC(0, "call_a", "search", Null), TC(1, "call_b", "fetch", Null)>>, Null),
    Chunk(1, Null, <<>>, "stop"),
    Chunk(1, Null, <<>>, "tool_calls"),
    Chunk(1, "t", <<>>, "stop"),
    Chunk(1, "t", <<TC(0, "call_a", "search", Null)>>, Null),
    Chunk(1, Null, <<TC(0, Null, Null, "x")>>, "tool_calls") }

\* JavaScript truthiness of an optional string
Present(x) == x # Null /\ x # ""

Event(type, index, kind, data) ==
  [type |-> type, index |-> index, kind |-> kind, data |-> data]

mapOpenAIStopReasonToAnthropic(fr) ==
  CASE fr = "stop" -> "end_turn"
    [] fr = "length" -> "max_tokens"
    [] fr = "tool_calls" -> "tool_use"
    [] fr = "content_filter" -> "end_turn"
    [] OTHER -> Null

\* The translator's functions work on a pair s = [st, ev]: the connection
\* state and the events array of the current call.
Emit(s, e) == [s EXCEPT !.ev = Append(@, e)]

isToolBlockOpen(st) ==
  /\ st.contentBlockOpen
  /\ \E p \in DOMAIN st.toolCalls :
       st.toolCalls[p].anthropicBlockIndex = st.contentBlockIndex

closeContentBlock(s) ==
  [st |-> [s.st EXCEPT !.contentBlockIndex = @ + 1, !.contentBlockOpen = FALSE],
   ev |-> Append(s.ev, Event("content_block_stop", s.st.contentBlockIndex, Null, Null))]

handleTextContent_Reopen(s, content) ==
  LET s1 == IF isToolBlockOpen(s.st) THEN closeContentBlock(s) ELSE s
      s2 == [st |-> [s1.st EXCEPT !.contentBlockOpen = TRUE],
             ev |-> Append(s1.ev, Event("content_block_start",
                                        s1.st.contentBlockIndex, "text", ""))]
  IN  Emit(s2, Event("content_block_delta", s2.st.contentBlockIndex, "text_delta", content))

handleTextContent(s, content) ==
  LET s1 == IF isToolBlockOpen(s.st) THEN closeContentBlock(s) ELSE s
      s2 == IF ~s1.st.contentBlockOpen
            THEN [st |-> [s1.st EXCEPT !.contentBlockOpen = TRUE],
                  ev |-> Append(s1.ev, Event("content_block_start",
                                             s1.st.contentBlockIndex, "text", ""))]
            ELSE s1
  IN  Emit(s2, Event("content_block_delta", s2.st.contentBlockIndex, "text_delta", content))

handleNewToolCall(s, tc) ==
  LET s1 == IF s.st.contentBlockOpen THEN closeContentBlock(s) ELSE s
      anthropicBlockIndex == s1.st.contentBlockIndex
  IN  [st |-> [s1.st EXCEPT
                 !.toolCalls = MapSet(@, tc.index,
                                      [id |-> tc.id, name |-> tc.name,
                                       anthropicBlockIndex |-> anthropicBlockIndex]),
                 !.contentBlockOpen = TRUE],
       ev |-> Append(s1.ev, Event("content_block_start", anthropicBlockIndex,
                                  "tool_use", tc.id))]

\* an unknown position is recorded as a tool call of the current block
handleToolCallArguments_Record(s, tc) ==
  IF tc.index \notin DOMAIN s.st.toolCalls
  THEN [s EXCEPT !.st.toolCalls =
          MapSet(@, tc.index, [id |-> Null, name |-> Null,
                               anthropicBlockIndex |-> s.st.contentBlockIndex])]
  ELSE Emit(s, Event("content_block_delta",
                     s.st.toolCalls[tc.index].anthropicBlockIndex,
                     "input_json_delta", tc.arguments))

handleToolCallArguments_Unknown(s, tc) ==
  IF tc.index \in DOMAIN s.st.toolCalls THEN s
  ELSE Emit(s, Event("content_block_delta", s.st.contentBlockIndex,
                     "input_json_delta", tc.arguments))

handleToolCallArguments(s, tc) ==
  IF tc.index \notin DOMAIN s.st.toolCalls THEN s
  ELSE Emit(s, Event("content_block_delta",
                     s.st.toolCalls[tc.index].anthropicBlockIndex,
                     "input_json_delta", tc.arguments))

\* a handleFinishReason that leaves the open block open
handleFinishReason_NoClose(s, fr) ==
  [s EXCEPT !.ev = @ \o << Event("message_delta", -1, Null,
                                 mapOpenAIStopReasonToAnthropic(fr)),
                           Event("message_stop", -1, Null, Null) >>]

handleFinishReason(s, fr) ==
  LET s1 == IF s.st.contentBlockOpen
            THEN [st |-> [s.st EXCEPT !.contentBlockOpen = FALSE],
                  ev |-> Append(s.ev, Event("content_block_stop",
                                            s.st.contentBlockIndex, Null, Null))]
            ELSE s
  IN  [s1 EXCEPT !.ev = @ \o << Event("message_delta", -1, Null,
                                      mapOpenAIStopReasonToAnthropic(fr)),
                                Event("message_stop", -1, Null, Null) >>]

\* the body of "for (const toolCall of delta.tool_calls)"
RECURSIVE handleToolCalls(_, _)
handleToolCalls(s, tcs) ==
  IF tcs = <<>> THEN s
  ELSE LET tc == Head(tcs)
           s1 == IF Present(tc.id) /\ Present(tc.name)
                 THEN handleNewToolCall(s, tc) ELSE s
           s2 == IF Present(tc.arguments)
                 THEN handleToolCallArguments(s1, tc) ELSE s1
       IN  handleToolCalls(s2, Tail(tcs))

sendMessageStart_Always(s) ==
  [st |-> [s.st EXCEPT !.messageStartSent = TRUE],
   ev |-> Append(s.ev, Event("message_start", -1, Null, Null))]

\* if (!state.messageStartSent) { events.push(message_start); ... = true }
sendMessageStart(s) ==
  IF ~s.st.messageStartSent
  THEN [st |-> [s.st EXCEPT !.messageStartSent = TRUE],
        ev |-> Append(s.ev, Event("message_start", -1, Null, Null))]
  ELSE s

\* translateChunkToAnthropicEvents(chunk, state): the state after the call
\* with the events it returns
translateChunkToAnthropicEvents(chunk, st) ==
  IF chunk.choices = 0 THEN [st |-> st, ev |-> <<>>]
  ELSE LET s0 == [st |-> st, ev |-> <<>>]
           s1 == sendMessageStart(s0)
           s2 == IF Present(chunk.content)
                 THEN handleTextContent(s1, chunk.content) ELSE s1
           s3 == handleToolCalls(s2, chunk.tool_calls)
       IN  IF Present(chunk.finish_reason)
           THEN handleFinishReason(s3, chunk.finish_reason) ELSE s3

StreamInit ==
  /\ state = [messageStartSent |-> FALSE, contentBlockIndex |-> 0,
              contentBlockOpen |-> FALSE, toolCalls |-> EmptyMap]
  /\ events = <<>>
  /\ chunksFed = 0
  /\ fed = <<>>
  /\ finishedAt = -1

\* one upstream chunk arrives on the connection and is translated
TranslateChunk(chunk) ==
  /\ UNCHANGED notStreamVars
  /\ chunksFed < MaxChunks
  /\ LET r == translateChunkToAnthropicEvents(chunk, state)
     IN  /\ state' = r.st
         /\ events' = events \o r.ev
         /\ finishedAt' = IF finishedAt = -1 /\ chunk.choices > 0
                             /\ Present(chunk.finish_reason)
                          THEN Len(events') ELSE finishedAt
  /\ chunksFed' = chunksFed + 1
  /\ fed' = Append(fed, chunk)

StreamNext ==
  \E chunk \in Chunks : TranslateChunk(chunk)

(***************************************************************************)
(* checkRateLimit (src/unnamed/part_002, lines 8-51).                       *)
(* Requests are handled concurrently: each caller is one invocation of      *)
(* checkRateLimit, suspended at most at its await sleep(...). An optional   *)
(* number is the empty set or the singleton of its value.                   *)
(***************************************************************************)
Callers == {"a", "b"}
IntervalChoices == {{}, {1}, {2}}

\* a caller's record: pc is idle, sleeping, admitted or rejected; the other
\* fields are history of its latest call
IdleCaller ==
  [pc |-> "idle", calledAt |-> 0, seen |-> {}, wakeAt |-> 0, slept |-> FALSE,
   doneAt |-> 0]

RateInit ==
  /\ rateState \in [rateLimitSeconds : IntervalChoices, rateLimitWait : BOOLEAN,
                     lastRequestTimestamp : {{}}]
  /\ clock = 1000
  /\ callers = [c \in Callers |-> IdleCaller]

\* Math.ceil(ms / 1000) for ms >= 0
CeilSeconds(ms) == (ms + 999) \div 1000

\* state.lastRequestTimestamp = Date.now()
updateTimestamp(rs, t) == [rs EXCEPT !.lastRequestTimestamp = {t}]

\* elapsedSeconds > state.rateLimitSeconds, with the elapsed time in ms
intervalPassed_Geq(elapsedMs, seconds) == elapsedMs >= seconds * 1000

intervalPassed(elapsedMs, seconds) == elapsedMs > seconds * 1000

\* a rejection that records the rejected request
rateLimitExceeded_Stamped(rs, t) == updateTimestamp(rs, t)

\* throw new HTTPError("Rate limit exceeded", ...): the state as the throw
\* leaves it
rateLimitExceeded(rs, t) == rs

\* checkRateLimit(state) is called by c: up to its return, throw or await
CheckRateLimit(c) ==
  /\ UNCHANGED notRateVars
  /\ callers[c].pc # "sleeping"
  /\ LET call == [IdleCaller EXCEPT !.calledAt = clock,
                                     !.seen = rateState.lastRequestTimestamp]
         admitted == [call EXCEPT !.pc = "admitted", !.doneAt = clock]
     IN  IF rateState.rateLimitSeconds = {}
         THEN /\ callers' = [callers EXCEPT ![c] = admitted]
              /\ UNCHANGED rateState
         ELSE IF ~Truthy(rateState.lastRequestTimestamp)
         THEN /\ rateState' = updateTimestamp(rateState, clock)
              /\ callers' = [callers EXCEPT ![c] = admitted]
         ELSE LET seconds == CHOOSE n \in rateState.rateLimitSeconds : TRUE
                  last == CHOOSE t \in rateState.lastRequestTimestamp : TRUE
                  elapsedMs == clock - last
                  waitTimeSeconds == CeilSeconds(seconds * 1000 - elapsedMs)
              IN  IF intervalPassed(elapsedMs, seconds)
                  THEN /\ rateState' = updateTimestamp(rateState, clock)
                       /\ callers' = [callers EXCEPT ![c] = admitted]
                  ELSE IF ~rateState.rateLimitWait
                  THEN /\ callers' = [callers EXCEPT ![c] =
                                        [call EXCEPT !.pc = "rejected", !.doneAt = clock]]
                       /\ rateState' = rateLimitExceeded(rateState, clock)
                  ELSE /\ callers' = [callers EXCEPT ![c] =
                                        [call EXCEPT !.pc = "sleeping", !.slept = TRUE,
                                           !.wakeAt = clock + waitTimeSeconds * 1000]]
                       /\ UNCHANGED rateState
  /\ UNCHANGED clock

\* the sleep of c is over (a timer fires at its time or later): the code
\* after the await
SleepEnds(c) ==
  /\ UNCHANGED notRateVars
  /\ callers[c].pc = "sleeping"
  /\ clock >= callers[c].wakeAt
  /\ rateState' = updateTimestamp(rateState, clock)
  /\ callers' = [callers EXCEPT ![c].pc = "admitted", ![c].doneAt = clock]
  /\ UNCHANGED clock

\* half a second passes
RateTick ==
  /\ UNCHANGED notRateVars
  /\ clock < 1000 + MaxRateTicks * 500
  /\ clock' = clock + 500
  /\ UNCHANGED <<rateState, callers>>

RateNext ==
  \/ \E c \in Callers : CheckRateLimit(c)
  \/ \E c \in Callers : SleepEnds(c)
  \/ RateTick

(***************************************************************************)
(* Account-pool store (src/unnamed/part_002, lines 53-265) and the token    *)
(* dispatch getActiveCopilotToken (src/src/lib/token.ts).                   *)
(***************************************************************************)
Account(id, active, rateLimited, paused) ==
  [id |-> id, token |-> id, active |-> active, rateLimited |-> rateLimited,
   paused |-> paused]
Pool(accounts) == [accounts |-> accounts]
\* the pool states callers install
PoolStates ==
  { Pool(<< >>),
    Pool(<< Account("acc1", TRUE, FALSE, FALSE) >>),
    Pool(<< Account("acc1", TRUE, FALSE, FALSE), Account("acc2", TRUE, TRUE, FALSE) >>),
    Pool(<< Account("acc1", TRUE, FALSE, TRUE), Account("acc2", TRUE, FALSE, FALSE) >>),
    Pool(<< Account("acc1", FALSE, FALSE, FALSE), Account("acc2", TRUE, TRUE, FALSE) >>) }
\* what is on disk when the process starts: no file, or a saved document
NoFile == [exists |-> FALSE, state |-> Pool(<< >>), enabled |-> FALSE, ver |-> 0]
StartFiles ==
  { NoFile,
    [exists |-> TRUE, state |-> Pool(<< Account("acc2", TRUE, FALSE, FALSE) >>),
     enabled |-> TRUE, ver |-> 0] }

eligible_NotPaused(a) == a.active /\ ~a.rateLimited

\* (a) => a.active && !a.rateLimited && !a.paused
eligible(a) == a.active /\ ~a.rateLimited /\ ~a.paused

NotCached == [cached |-> FALSE, list |-> << >>]
NoTimer == [armed |-> FALSE, at |-> 0]
PoolRet(op, kind, val) == [op |-> op, kind |-> kind, val |-> val]
\* history of the saves: whether savePoolState was called, how many calls
\* the current burst has (1, or 2 for several), when the last call was, how
\* many debounced writes began since and when; whether
\* savePoolStateImmediate was called, after how many mutations, and whether
\* its write has completed
SaveHistInit ==
  [called |-> FALSE, burst |-> 0, lastCallAt |-> 0, started |-> 0, startedAt |-> 0,
   flushed |-> FALSE, flushVer |-> 0, flushDone |-> FALSE]

PoolInit ==
  /\ poolState = Pool(<< >>)
  /\ poolConfig = [enabled |-> FALSE]
  /\ cachedActiveAccounts = NotCached
  /\ poolFile \in StartFiles
  /\ saveDebounceTimer = NoTimer
  /\ pendingSave = FALSE
  /\ writes = {}
  /\ pclock = 0
  /\ copilotToken = Null
  /\ mutations = 0
  /\ poolRet = PoolRet("init", Null, << >>)
  /\ saveHist = SaveHistInit

\* setPoolState(next): the assignment and invalidateActiveAccountsCache()
SetPoolState(next) ==
  /\ UNCHANGED notPoolVars
  /\ mutations < MaxMutations
  /\ mutations' = mutations + 1
  /\ poolState' = next
  /\ cachedActiveAccounts' = NotCached
  /\ poolRet' = PoolRet("setPoolState", Null, << >>)
  /\ UNCHANGED <<poolConfig, poolFile, saveDebounceTimer, pendingSave, writes,
                 pclock, copilotToken, saveHist>>

\* setPoolConfig(next)
SetPoolConfig(enabled) ==
  /\ UNCHANGED notPoolVars
  /\ poolConfig' = [enabled |-> enabled]
  /\ poolRet' = PoolRet("setPoolConfig", Null, << >>)
  /\ UNCHANGED <<poolState, cachedActiveAccounts, poolFile, saveDebounceTimer,
                 pendingSave, writes, pclock, copilotToken, mutations, saveHist>>

\* invalidateActiveAccountsCache()
InvalidateActiveAccountsCache ==
  /\ UNCHANGED notPoolVars
  /\ cachedActiveAccounts' = NotCached
  /\ poolRet' = PoolRet("invalidate", Null, << >>)
  /\ UNCHANGED <<poolState, poolConfig, poolFile, saveDebounceTimer, pendingSave,
                 writes, pclock, copilotToken, mutations, saveHist>>

\* getActiveAccounts()
GetActiveAccounts ==
  /\ UNCHANGED notPoolVars
  /\ cachedActiveAccounts' =
       IF ~cachedActiveAccounts.cached
       THEN [cached |-> TRUE, list |-> SelectSeq(poolState.accounts, eligible)]
       ELSE cachedActiveAccounts
  /\ poolRet' = PoolRet("getActiveAccounts", "value", cachedActiveAccounts'.list)
  /\ UNCHANGED <<poolState, poolConfig, poolFile, saveDebounceTimer, pendingSave,
                 writes, pclock, copilotToken, mutations, saveHist>>

\* loadPoolState(): the file is read and parsed; a missing file keeps the
\* defaults. The cached view is not touched.
LoadPoolState ==
  /\ UNCHANGED notPoolVars
  /\ IF poolFile.exists
     THEN /\ poolState' = poolFile.state
          /\ poolConfig' = [enabled |-> poolFile.enabled]
     ELSE UNCHANGED <<poolState, poolConfig>>
  /\ poolRet' = PoolRet("loadPoolState", Null, << >>)
  /\ UNCHANGED <<cachedActiveAccounts, poolFile, saveDebounceTimer, pendingSave,
                 writes, pclock, copilotToken, mutations, saveHist>>

\* isPoolEnabledSync() of ~/lib/account-pool
isPoolEnabledSync == poolConfig.enabled

\* getPooledCopilotToken() of ~/lib/account-pool: the token of an eligible
\* account of the pool, or Null when no account is eligible
getPooledCopilotToken ==
  LET ok == SelectSeq(poolState.accounts, eligible)
  IN  IF ok = << >> THEN Null ELSE ok[1].token

getActiveCopilotToken_NoFallback(enabled, poolToken, single) ==
  IF enabled
  THEN (IF poolToken # Null THEN PoolRet("getActiveCopilotToken", "value", poolToken)
        ELSE PoolRet("getActiveCopilotToken", "error", "No Copilot token available"))
  ELSE IF single = Null
  THEN PoolRet("getActiveCopilotToken", "error", "No Copilot token available")
  ELSE PoolRet("getActiveCopilotToken", "value", single)

\* getActiveCopilotToken(): what it returns or throws, given
\* isPoolEnabledSync(), the pool's token and state.copilotToken
getActiveCopilotToken(enabled, poolToken, single) ==
  IF enabled /\ poolToken # Null
  THEN PoolRet("getActiveCopilotToken", "value", poolToken)
  ELSE IF single = Null
  THEN PoolRet("getActiveCopilotToken", "error", "No Copilot token available")
  ELSE PoolRet("getActiveCopilotToken", "value", single)

\* state.copilotToken is set by the token setup, or is still unset
SetCopilotToken(token) ==
  /\ UNCHANGED notPoolVars
  /\ copilotToken' = token
  /\ poolRet' = PoolRet("setCopilotToken", Null, << >>)
  /\ UNCHANGED <<poolState, poolConfig, cachedActiveAccounts, poolFile,
                 saveDebounceTimer, pendingSave, writes, pclock, mutations, saveHist>>

\* a dispatch obtains its token
GetActiveCopilotToken ==
  /\ UNCHANGED notPoolVars
  /\ poolRet' = getActiveCopilotToken(isPoolEnabledSync, getPooledCopilotToken,
                                       copilotToken)
  /\ UNCHANGED <<poolState, poolConfig, cachedActiveAccounts, poolFile,
                 saveDebounceTimer, pendingSave, writes, pclock, copilotToken,
                 mutations, saveHist>>

\* const SAVE_DEBOUNCE_MS = 500
SAVE_DEBOUNCE_MS == 500

debounceDeadline_KeepFirst(timer, t) ==
  IF timer.armed THEN timer.at ELSE t + SAVE_DEBOUNCE_MS

\* clearTimeout(saveDebounceTimer); setTimeout(..., SAVE_DEBOUNCE_MS) at time t
debounceDeadline(timer, t) == t + SAVE_DEBOUNCE_MS

\* a save in progress: awaiting ensureDir(), or writing the document captured
Save(kind) ==
  [kind |-> kind, stage |-> "ensureDir", state |-> Pool(<< >>), enabled |-> FALSE,
   ver |-> 0]

\* savePoolState()
SavePoolState ==
  /\ UNCHANGED notPoolVars
  /\ pendingSave' = TRUE
  /\ saveDebounceTimer' = [armed |-> TRUE, at |-> debounceDeadline(saveDebounceTimer, pclock)]
  /\ saveHist' = [saveHist EXCEPT
                    !.called = TRUE,
                    !.burst = IF saveDebounceTimer.armed THEN 2 ELSE 1,
                    !.lastCallAt = pclock, !.started = 0]
  /\ UNCHANGED poolRet
  /\ UNCHANGED <<poolState, poolConfig, cachedActiveAccounts, poolFile, writes,
                 pclock, copilotToken, mutations>>

\* the debounce timeout fires: the callback up to ensureDir()
DebounceFires ==
  /\ UNCHANGED notPoolVars
  /\ saveDebounceTimer.armed
  /\ pclock >= saveDebounceTimer.at
  /\ saveDebounceTimer' = [saveDebounceTimer EXCEPT !.armed = FALSE]
  /\ IF ~pendingSave
     THEN UNCHANGED <<pendingSave, writes, saveHist>>
     ELSE /\ pendingSave' = FALSE
          /\ writes' = writes \cup {Save("debounced")}
          /\ saveHist' = [saveHist EXCEPT !.started = @ + 1, !.startedAt = pclock]
  /\ UNCHANGED poolRet
  /\ UNCHANGED <<poolState, poolConfig, cachedActiveAccounts, poolFile, pclock,
                 copilotToken, mutations>>

\* ensureDir() of the save w has settled: stateToSave is built from the
\* current poolState and poolConfig and handed to fs.writeFile
WriteStarts(w) ==
  /\ UNCHANGED notPoolVars
  /\ w \in writes /\ w.stage = "ensureDir"
  /\ writes' = (writes \ {w}) \cup
                 {[w EXCEPT !.stage = "writing", !.state = poolState,
                            !.enabled = poolConfig.enabled, !.ver = mutations]}
  /\ UNCHANGED poolRet
  /\ UNCHANGED <<poolState, poolConfig, cachedActiveAccounts, poolFile,
                 saveDebounceTimer, pendingSave, pclock, copilotToken, mutations,
                 saveHist>>

\* fs.writeFile of the save w completes; the writes in progress complete in
\* any order. After its write savePoolStateImmediate clears pendingSave.
WriteDone(w) ==
  /\ UNCHANGED notPoolVars
  /\ w \in writes /\ w.stage = "writing"
  /\ writes' = writes \ {w}
  /\ poolFile' = [exists |-> TRUE, state |-> w.state, enabled |-> w.enabled,
                  ver |-> w.ver]
  /\ pendingSave' = IF w.kind = "immediate" THEN FALSE ELSE pendingSave
  /\ saveHist' = IF w.kind = "immediate"
                 THEN [saveHist EXCEPT !.flushDone = TRUE] ELSE saveHist
  /\ UNCHANGED poolRet
  /\ UNCHANGED <<poolState, poolConfig, cachedActiveAccounts, saveDebounceTimer,
                 pclock, copilotToken, mutations>>

\* fs.writeFile of the save w rejects: the error is logged
WriteFails(w) ==
  /\ UNCHANGED notPoolVars
  /\ w \in writes /\ w.stage = "writing"
  /\ writes' = writes \ {w}
  /\ UNCHANGED poolRet
  /\ UNCHANGED <<poolState, poolConfig, cachedActiveAccounts, poolFile,
                 saveDebounceTimer, pendingSave, pclock, copilotToken, mutations,
                 saveHist>>

\* savePoolStateImmediate() is called by the shutdown sequence: up to its
\* await ensureDir()
SavePoolStateImmediate ==
  /\ UNCHANGED notPoolVars
  /\ ~saveHist.flushed
  /\ saveDebounceTimer' = NoTimer
  /\ writes' = writes \cup {Save("immediate")}
  /\ saveHist' = [saveHist EXCEPT !.flushed = TRUE, !.flushVer = mutations]
  /\ UNCHANGED poolRet
  /\ UNCHANGED <<poolState, poolConfig, cachedActiveAccounts, poolFile,
                 pendingSave, pclock, copilotToken, mutations>>

\* a quarter of a second passes; a timeout that is due fires first
PoolTick ==
  /\ UNCHANGED notPoolVars
  /\ pclock < MaxPoolTicks * 250
  /\ ~(saveDebounceTimer.armed /\ pclock >= saveDebounceTimer.at)
  /\ pclock' = pclock + 250
  /\ UNCHANGED <<poolState, poolConfig, cachedActiveAccounts, poolFile,
                 saveDebounceTimer, pendingSave, writes, copilotToken, mutations,
                 poolRet, saveHist>>

\* the pool state installed by the n-th mutation between saves: every
\* mutation adds an account, so that no two states of a run are equal
GrownPool(n) ==
  Pool([i \in 1..n |-> Account(IF i % 2 = 1 THEN "acc1" ELSE "acc2",
                                TRUE, i > 2, FALSE)])

PoolSaveNext ==
  \/ \E next \in {GrownPool(mutations + 1)} : SetPoolState(next)
  \/ SavePoolState
  \/ DebounceFires
  \/ \E w \in writes : WriteStarts(w)
  \/ \E w \in writes : WriteDone(w)
  \/ \E w \in writes : WriteFails(w)
  \/ SavePoolStateImmediate
  \/ PoolTick

PoolNext ==
  \/ \E next \in PoolStates : SetPoolState(next)
  \/ \E enabled \in BOOLEAN : SetPoolConfig(enabled)
  \/ InvalidateActiveAccountsCache
  \/ GetActiveAccounts
  \/ LoadPoolState
  \/ \E token \in {Null, "single"} : SetCopilotToken(token)
  \/ GetActiveCopilotToken

(***************************************************************************)
(* ensurePoolStateLoaded (src/unnamed/part_002, lines 257-265). Requests    *)
(* call it concurrently; a call that finds poolStateLoaded false is         *)
(* suspended inside loadPoolState (at ensureDir and readFile) before it     *)
(* marks the state loaded.                                                   *)
(***************************************************************************)
EnsureCallers == {"a", "b"}

EnsureInit ==
  /\ poolStateLoaded = FALSE
  /\ loaders = [c \in EnsureCallers |-> "idle"]
  /\ ensureHist = [reads |-> 0, registered |-> 0, overwrote |-> FALSE]

\* what the other components leave unchanged of the pool and of the shutdown
\* manager when ensurePoolStateLoaded runs
ensureFrame ==
  <<cacheVars, retryVars, streamVars, rateVars, persistVars, delayVars, refreshVars,
    registryVars, cachedActiveAccounts, poolFile, saveDebounceTimer, pendingSave, writes, pclock,
    copilotToken, mutations, saveHist, isShuttingDown, sd, exitCode, ran, owed,
    signals>>

\* if (!poolStateLoaded)
needsLoad(loaded, ls) == ~loaded

\* ensurePoolStateLoaded() is called by c: it returns at once when the state
\* is marked loaded, and otherwise runs into loadPoolState up to its await
EnsurePoolStateLoaded(c) ==
  /\ loaders[c] = "idle"
  /\ loaders' = [loaders EXCEPT ![c] = IF needsLoad(poolStateLoaded, loaders)
                                       THEN "loading" ELSE "done"]
  /\ UNCHANGED <<poolStateLoaded, ensureHist, poolState, poolConfig, poolRet, handlers>>
  /\ UNCHANGED ensureFrame

\* the readFile of c's loadPoolState settles: the rest of loadPoolState, then
\* markPoolStateLoaded() and registerShutdownHandler("account-pool", ..., 10)
LoadPoolStateSettles(c) ==
  /\ loaders[c] = "loading"
  /\ Len(handlers) < MaxHandlers
  /\ IF poolFile.exists
     THEN /\ poolState' = poolFile.state
          /\ poolConfig' = [enabled |-> poolFile.enabled]
     ELSE UNCHANGED <<poolState, poolConfig>>
  /\ poolRet' = PoolRet("loadPoolState", Null, << >>)
  /\ poolStateLoaded' = TRUE
  /\ handlers' = sortByPriority(Append(handlers, [id |-> Len(handlers) + 1,
                                                  priority |-> 10]))
  /\ ensureHist' = [reads |-> ensureHist.reads + 1,
                    registered |-> ensureHist.registered + 1,
                    overwrote |-> ensureHist.overwrote
                                    \/ (poolStateLoaded /\ poolFile.exists)]
  /\ loaders' = [loaders EXCEPT ![c] = "done"]
  /\ UNCHANGED ensureFrame

\* the request of c is over; c stands for a later request
RequestEnds(c) ==
  /\ loaders[c] = "done"
  /\ loaders' = [loaders EXCEPT ![c] = "idle"]
  /\ UNCHANGED <<poolStateLoaded, ensureHist, poolState, poolConfig, poolRet, handlers>>
  /\ UNCHANGED ensureFrame

EnsureNext ==
  \/ \E c \in EnsureCallers : EnsurePoolStateLoaded(c)
  \/ \E c \in EnsureCallers : LoadPoolStateSettles(c)
  \/ \E c \in EnsureCallers : RequestEnds(c)
  \/ \E next \in PoolStates : SetPoolState(next)

(***************************************************************************)
(* Interval registry (src/src/lib/intervals.ts, lines 1-58) and the timer   *)
(* setupCopilotToken registers (src/src/lib/token.ts, lines 75-104).        *)
(* A timer is its position in timers; clearInterval makes it not live.      *)
(***************************************************************************)
MaxTimers == 3
REFRESH_INTERVAL_NAME == "copilot-token-refresh"
IntervalNames == {REFRESH_INTERVAL_NAME, "other"}

RegistryInit ==
  /\ intervals = EmptyMap
  /\ timers = << >>
  /\ registryHist = [op |-> "none", name |-> Null]

\* clearInterval(id)
clearInterval(tm, id) == [tm EXCEPT ![id].live = FALSE]

\* a registerInterval that forgets the timer it replaces without clearing it
registerInterval_NoClear(reg, tm, name, id) ==
  [reg |-> MapSet(reg, name, id),
   tm  |-> [tm EXCEPT ![id].names = @ \cup {name}]]

\* registerInterval(name, interval): the registry and the timers after it
registerInterval(reg, tm, name, id) ==
  LET cleared == IF name \in DOMAIN reg THEN clearInterval(tm, reg[name]) ELSE tm
  IN  [reg |-> MapSet(reg, name, id),
       tm  |-> [cleared EXCEPT ![id].names = @ \cup {name}]]

\* setInterval(...) returns a new timer and registerInterval(name, it) follows
SetIntervalAndRegister(name, op) ==
  /\ UNCHANGED notRegistryVars
  /\ Len(timers) < MaxTimers
  /\ LET r == registerInterval(intervals, Append(timers, [live |-> TRUE, names |-> {}]),
                                name, Len(timers) + 1)
     IN  intervals' = r.reg /\ timers' = r.tm
  /\ registryHist' = [op |-> op, name |-> name]

\* the end of setupCopilotToken: setInterval and
\* registerInterval("copilot-token-refresh", intervalId)
SetupCopilotTokenTimer == SetIntervalAndRegister(REFRESH_INTERVAL_NAME, "setup")

\* registerInterval(name, id) with a timer that was created before
RegisterInterval(name, id) ==
  /\ UNCHANGED notRegistryVars
  /\ id \in 1..Len(timers)
  /\ LET r == registerInterval(intervals, timers, name, id)
     IN  intervals' = r.reg /\ timers' = r.tm
  /\ registryHist' = [op |-> "register", name |-> name]

\* clearRegisteredInterval(name)
ClearRegisteredInterval(name) ==
  /\ UNCHANGED notRegistryVars
  /\ IF name \in DOMAIN intervals
     THEN /\ timers' = clearInterval(timers, intervals[name])
          /\ intervals' = MapDelete(intervals, name)
     ELSE UNCHANGED <<intervals, timers>>
  /\ registryHist' = [op |-> "clear", name |-> name]

\* clearInterval on every timer of the set ids
RECURSIVE clearEach(_, _)
clearEach(tm, ids) ==
  IF ids = {} THEN tm
  ELSE LET id == CHOOSE x \in ids : TRUE
       IN  clearEach(clearInterval(tm, id), ids \ {id})

\* clearAllIntervals()
ClearAllIntervals ==
  /\ UNCHANGED notRegistryVars
  /\ timers' = clearEach(timers, {intervals[n] : n \in DOMAIN intervals})
  /\ intervals' = EmptyMap
  /\ registryHist' = [op |-> "clearAll", name |-> Null]

RegistryNext ==
  \/ \E name \in IntervalNames : SetIntervalAndRegister(name, "register")
  \/ SetupCopilotTokenTimer
  \/ \E name \in IntervalNames, id \in 1..MaxTimers : RegisterInterval(name, id)
  \/ \E name \in IntervalNames : ClearRegisteredInterval(name)
  \/ ClearAllIntervals

(***************************************************************************)
(* Specifications: one per component.                                       *)
(***************************************************************************)
Init ==
  /\ CacheInit /\ PersistInit /\ RetryInit /\ StreamInit /\ RateInit /\ PoolInit
  /\ DelayInit /\ RefreshInit /\ ShutdownInit /\ EnsureInit /\ RegistryInit

Next ==
  \/ CacheNext \/ PersistNext \/ RetryNext \/ StreamNext \/ RateNext
  \/ PoolNext \/ PoolSaveNext
  \/ DelayNext \/ RefreshNext \/ ShutdownNext
  \/ SaveNext \/ LruNext \/ EnsureNext \/ RegistryNext

\* the components a specification does not exercise start in one state:
\* no pacing interval configured, no pool document on disk
RateOff ==
  rateState = [rateLimitSeconds |-> {}, rateLimitWait |-> FALSE,
               lastRequestTimestamp |-> {}]
PoolFresh == poolFile = NoFile

InitQuiet == Init /\ RateOff /\ PoolFresh
InitRate == Init /\ PoolFresh
InitPool == Init /\ RateOff

SpecCache  == InitQuiet /\ [][CacheNext]_vars
SpecPersist == InitQuiet /\ [][PersistNext]_vars
SpecRetry  == InitQuiet /\ [][RetryNext]_vars
SpecStream == InitQuiet /\ [][StreamNext]_vars
SpecRate   == InitRate /\ [][RateNext]_vars
SpecPool   == InitPool /\ [][PoolNext]_vars
SpecPoolSave == InitPool /\ [][PoolSaveNext]_vars
SpecDelay  == InitQuiet /\ [][DelayNext]_vars
SpecRefresh == InitQuiet /\ [][RefreshNext]_vars
SpecShutdown == InitQuiet /\ [][ShutdownNext]_vars
SpecSave   == InitQuiet /\ [][SaveNext]_vars
SpecLru    == InitQuiet /\ [][LruNext]_vars
\* the call of a handler ends (it returns, throws or hands back a promise),
\* and the force-exit timer fires when it is due; a promise may stay pending
SpecShutdownLive ==
  /\ InitQuiet /\ [][ShutdownNext]_vars
  /\ WF_vars((\E res \in {"ok", "failed"} : HandlerReturns(res)) \/ HandlerPending)
  /\ WF_vars(ForceExit)
SpecEnsure == InitPool /\ [][EnsureNext]_vars
SpecRegistry == InitQuiet /\ [][RegistryNext]_vars
Spec       == Init /\ [][Next]_vars


(***************************************************************************)
(* Claims about the response cache (checked under SpecCache).               *)
(***************************************************************************)
TtlMs == cacheConfig.ttlSeconds * 1000

\* the keys met walking the recency list from a node along next, at most n nodes
RECURSIVE Walk(_, _, _)
Walk(nodes, k, n) ==
  IF k = Null \/ n = 0 \/ k \notin DOMAIN nodes THEN {}
  ELSE {k} \cup Walk(nodes, nodes[k].next, n - 1)
ListKeys(nodes, head) == Walk(nodes, head, Cardinality(Keys) + 1)

\* C1: with the cache enabled, a getCachedResponse(K) that follows
\* setCachedResponse(K, R) returns an entry with response R, as long as the
\* age of the entry is at most the TTL and K was not evicted, deleted,
\* cleared or replaced in between (lastPut[K] records exactly that).
C1_GetReturnsLastPut ==
  [][ ( /\ ret'.op = "get"
        /\ cacheConfig.enabled
        /\ lastPut[ret'.key].present
        /\ now' - lastPut[ret'.key].createdAt <= TtlMs )
      => ( ret'.hit /\ ret'.response = lastPut[ret'.key].response ) ]_vars

\* a hit exactly one TTL after the put, returning the payload put, with two
\* entries cached
C1_Witness ==
  /\ ret.op = "get" /\ ret.hit /\ ret.response = "r2"
  /\ lastPut[ret.key].present
  /\ now - lastPut[ret.key].createdAt = TtlMs
  /\ Cardinality(DOMAIN cache) = 2

\* C2: inserting a key that is not present into a cache holding exactly
\* maxSize >= 1 entries removes exactly one entry, the least recently
\* accessed one; every other entry is kept unchanged and the new one is stored.
C2_EvictsLeastRecentlyAccessed ==
  [][ ( /\ ret'.op = "set"
        /\ cacheConfig.enabled
        /\ cacheConfig.maxSize >= 1
        /\ Cardinality(DOMAIN cache) = cacheConfig.maxSize
        /\ ret'.key \notin DOMAIN cache )
      => ( /\ ret'.evicted = <<LeastRecent>>
           /\ DOMAIN cache' = ((DOMAIN cache) \ {LeastRecent}) \cup {ret'.key}
           /\ \A x \in (DOMAIN cache) \ {LeastRecent} : cache'[x] = cache[x] ) ]_vars

\* an insertion into a full cache of two evicted the least recently accessed
\* entry and kept one that had been read
C2_Witness ==
  /\ ret.op = "set" /\ Len(ret.evicted) = 1
  /\ ret.evicted[1] = ret.lruBefore
  /\ cacheConfig.maxSize = 2 /\ Cardinality(DOMAIN cache) = 2
  /\ \E x \in DOMAIN cache : x # ret.key /\ cache[x].hits > 0

\* C3 as stated: after a hit on K, the least recently used entry of a full
\* cache, the next insertion of a new key evicts another entry and K survives.
C3_HitSurvivesNextInsertion ==
  [][ ( /\ ret.op = "get" /\ ret.hit /\ ret.key = ret.lruBefore
        /\ cacheConfig.enabled
        /\ Cardinality(DOMAIN cache) = cacheConfig.maxSize
        /\ ret'.op = "set" /\ ret'.key \notin DOMAIN cache )
      => ( /\ ret.key \in DOMAIN cache'
           /\ Len(ret'.evicted) = 1
           /\ ret'.evicted[1] # ret.key ) ]_vars

\* C3 amended: the same for a cache that holds at least two entries
\* (maxSize >= 2); with maxSize = 1 the hit entry is the only one and goes.
C3_HitSurvivesNextInsertionOfTwo ==
  [][ ( /\ ret.op = "get" /\ ret.hit /\ ret.key = ret.lruBefore
        /\ cacheConfig.enabled
        /\ cacheConfig.maxSize >= 2
        /\ Cardinality(DOMAIN cache) = cacheConfig.maxSize
        /\ ret'.op = "set" /\ ret'.key \notin DOMAIN cache )
      => ( /\ ret.key \in DOMAIN cache'
           /\ Len(ret'.evicted) = 1
           /\ ret'.evicted[1] # ret.key
           /\ lruHead = ret.key ) ]_vars

\* the insertion that followed a hit on the least recently used key kept it
C3_Witness ==
  /\ ret.op = "set" /\ ret.afterHitOn # Null
  /\ Len(ret.evicted) = 1
  /\ ret.afterHitOn \in DOMAIN cache
  /\ cacheConfig.maxSize = 2 /\ Cardinality(DOMAIN cache) = 2

\* C4: a lookup of an entry older than the TTL (age counted from createdAt,
\* whatever its hits and lastAccessed) is a miss, adds one to misses and none
\* to hits, and removes the key from the key map and from the recency list.
C4_ExpiredIsMissAndPurged ==
  [][ ( /\ ret'.op = "get"
        /\ cacheConfig.enabled
        /\ ret'.key \in DOMAIN cache
        /\ now' - cache[ret'.key].createdAt > TtlMs )
      => ( /\ ~ret'.hit /\ ret'.response = Null
           /\ misses' = misses + 1 /\ hits' = hits
           /\ ret'.key \notin DOMAIN cache'
           /\ ret'.key \notin DOMAIN lruNodes'
           /\ ret'.key \notin ListKeys(lruNodes', lruHead')
           /\ lruHead' # ret'.key /\ lruTail' # ret'.key
           /\ ListKeys(lruNodes', lruHead') = DOMAIN cache' ) ]_vars

\* an entry that had been hit was purged by a later lookup, with another
\* entry still cached
C4_Witness ==
  /\ ret.op = "get" /\ ~ret.hit /\ ret.hitsBefore >= 1
  /\ ret.key \notin DOMAIN cache
  /\ misses = 1 /\ hits = 1
  /\ cache # EmptyMap


(***************************************************************************)
(* Claims about withRetry (checked under SpecRetry).                        *)
(***************************************************************************)
Count(seq, x) == Cardinality({i \in 1..Len(seq) : seq[i] = x})
Calls    == Count(rlog, "call")
Sleeps   == Count(rlog, "sleep")
OnRetrys == Count(rlog, "onRetry")

\* the claims' notion of a retryable failure, read off the thrown value
HasRetryableStatus(e, o) ==
  \/ \E n \in e.status : n \in o.retryableStatuses
  \/ \E n \in e.responseStatus : n \in o.retryableStatuses
IsTransportFailure(e) ==
  \/ \E c \in e.code : c \in {"ECONNRESET", "ECONNREFUSED", "ETIMEDOUT", "ENOTFOUND", "EAI_AGAIN"}
  \/ \E n \in e.name : n \in {"AbortError", "TimeoutError"}
ClaimRetryable(e, o) == HasRetryableStatus(e, o) \/ IsTransportFailure(e)

\* between two invocations of fn there is a sleep
SleepBetweenCalls(log) ==
  \A i, j \in 1..Len(log) :
    (i < j /\ log[i] = "call" /\ log[j] = "call")
      => \E m \in (i + 1)..(j - 1) : log[m] = "sleep"

\* C5: when fn fails with a retryable status on its first maxAttempts - 1
\* invocations and then succeeds, withRetry does not give up on any of those
\* failures, returns the value fn produced, has invoked fn exactly
\* maxAttempts times, and slept between any two invocations.
C5_RetriesThenReturns ==
  /\ ( /\ Len(errs) < opts.maxAttempts
       /\ \A i \in 1..Len(errs) : HasRetryableStatus(errs[i], opts) )
     => rpc # "thrown"
  /\ ( /\ rpc = "returned"
       /\ Len(errs) = opts.maxAttempts - 1
       /\ \A i \in 1..Len(errs) : HasRetryableStatus(errs[i], opts) )
     => ( /\ outcome.kind = "value"
          /\ outcome.val = rlog[Len(rlog)]
          /\ Calls = opts.maxAttempts
          /\ Sleeps = opts.maxAttempts - 1
          /\ SleepBetweenCalls(rlog) )

\* two failures with status 503, then success on the third and last attempt
C5_Witness ==
  /\ rpc = "returned" /\ opts.maxAttempts = 3 /\ Len(errs) = 2
  /\ \A i \in 1..2 : errs[i].status = {503}
  /\ outcome = Returned("v2")

\* C6: only retryable failures are retried (status or response.status in the
\* retryable set, or a network-transport failure); any other failure ends the
\* call at once: no sleep and no onRetry follow it and it is the error thrown;
\* if it is the first failure, fn was invoked exactly once.
C6_OnlyRetryableIsRetried ==
  /\ \A i \in 1..Len(errs) : (i <= Sleeps) => ClaimRetryable(errs[i], opts)
  /\ OnRetrys <= Sleeps
  /\ ( Len(errs) >= 1 /\ ~ClaimRetryable(errs[Len(errs)], opts) )
     => ( /\ rpc = "thrown"
          /\ outcome = Thrown(errs[Len(errs)])
          /\ Calls = Len(errs)
          /\ Sleeps = Len(errs) - 1
          /\ rlog[Len(rlog)] = "call" )
  /\ ( Len(errs) >= 1 /\ ~ClaimRetryable(errs[1], opts) )
     => ( Calls = 1 /\ Sleeps = 0 /\ OnRetrys = 0 /\ Len(errs) = 1 )

\* a first failure with status 400, attempts remaining and onRetry given
C6_Witness ==
  /\ rpc = "thrown" /\ opts.maxAttempts = 3 /\ opts.onRetry
  /\ errs = << Err(TRUE, {400}, {}, {}, {"Error"}) >>
  /\ rlog = <<"call">>

\* C7: when every invocation of fn fails with a retryable error, fn is invoked
\* exactly maxAttempts times (and never more in any call), one sleep follows
\* each attempt but the last, and the error thrown is the last attempt's.
C7_ExhaustionThrowsLastError ==
  /\ Calls <= opts.maxAttempts
  /\ ( /\ rpc = "thrown"
       /\ \A i \in 1..Len(errs) : ClaimRetryable(errs[i], opts) )
     => ( /\ Calls = opts.maxAttempts
          /\ Len(errs) = opts.maxAttempts
          /\ Sleeps = opts.maxAttempts - 1
          /\ rlog[Len(rlog)] = "call"
          /\ outcome = Thrown(errs[Len(errs)]) )

\* three retryable failures, the last one different from the earlier ones
C7_Witness ==
  /\ rpc = "thrown" /\ opts.maxAttempts = 3 /\ Len(errs) = 3
  /\ \A i \in 1..3 : ClaimRetryable(errs[i], opts)
  /\ errs[3] # errs[2] /\ errs[3] # errs[1]
  /\ outcome = Thrown(errs[3])

(***************************************************************************)
(* Claims about the streaming translator (checked under SpecStream).        *)
(***************************************************************************)
EventsOfType(type) == {i \in 1..Len(events) : events[i].type = type}
\* the blocks open after the first n events
OpenAfter(n) ==
  Cardinality({i \in 1..n : events[i].type = "content_block_start"})
    - Cardinality({i \in 1..n : events[i].type = "content_block_stop"})

\* C8: on one connection message_start is emitted at most once, and if any
\* event was emitted the first one is message_start.
C8_MessageStartFirstAndOnce ==
  /\ Cardinality(EventsOfType("message_start")) <= 1
  /\ events # <<>> => events[1].type = "message_start"

\* several chunks translated, text and tool blocks emitted
C8_Witness ==
  /\ chunksFed >= 3
  /\ Cardinality(EventsOfType("message_start")) = 1
  /\ Cardinality(EventsOfType("content_block_start")) >= 2
  /\ Cardinality(EventsOfType("message_stop")) >= 1

\* C9: at most one content block is open at any time, and the indices of
\* successive content_block_start events are strictly increasing (so no index
\* is used twice and no closed block's index is reused).
C9_OneOpenBlockIncreasingIndex ==
  /\ \A n \in 0..Len(events) : OpenAfter(n) \in {0, 1}
  /\ \A i, j \in EventsOfType("content_block_start") :
       i < j => events[i].index < events[j].index

\* C10: after the chunk with the first finish reason has been translated,
\* no further event is emitted on the connection.
C10_NothingAfterFinish ==
  finishedAt # -1 => Len(events) = finishedAt

\* C9 holds of every stream up to and including its first finish reason
C9_UntilFinish ==
  (finishedAt = -1 \/ Len(events) = finishedAt) => C9_OneOpenBlockIncreasingIndex

(***************************************************************************)
(* Claims about the persistence of the cache (checked under SpecPersist).   *)
(***************************************************************************)
\* the keys in the order evictLRU would remove them: from the tail along prev
RECURSIVE WalkBack(_, _, _)
WalkBack(nodes, k, n) ==
  IF k = Null \/ n = 0 \/ k \notin DOMAIN nodes THEN << >>
  ELSE << k >> \o WalkBack(nodes, nodes[k].prev, n - 1)
EvictionOrder(nodes, tail) == WalkBack(nodes, tail, Cardinality(Keys) + 1)

\* the document on disk is a save of the cache as it is now
SavedAsIs ==
  /\ cacheFile.exists
  /\ cacheFile.entries = EntriesOf(cacheKeys, cache)
  /\ cacheWrites = {}

\* C20: when the cache was saved and is loaded again with no entry expired
\* in between (every entry is still younger than the TTL at the load), the
\* entries would be evicted after the load in the order in which they would
\* have been evicted before the save.
C20_LoadKeepsEvictionOrder ==
  [][ ( /\ ret'.op = "load"
        /\ SavedAsIs
        /\ \A k \in DOMAIN cache : isValidOnLoad(cache[k], now', cacheConfig) )
      => EvictionOrder(lruNodes', lruTail') = EvictionOrder(lruNodes, lruTail) ]_vars

\* the same for entries younger than the TTL whose lastAccessed times differ
C20_DistinctTimesKeepOrder ==
  [][ ( /\ ret'.op = "load"
        /\ SavedAsIs
        /\ \A k \in DOMAIN cache : isValidOnLoad(cache[k], now', cacheConfig)
        /\ \A j, k \in DOMAIN cache :
             j # k => cache[j].lastAccessed # cache[k].lastAccessed )
      => EvictionOrder(lruNodes', lruTail') = EvictionOrder(lruNodes, lruTail) ]_vars

\* what C16 says of one getCachedResponse step
CountedOnce ==
  /\ IF ret'.hit
     THEN /\ ret'.key \in DOMAIN cache /\ ret'.key \in DOMAIN cache'
          /\ savedTokens' = savedTokens + cache[ret'.key].inputTokens
                                        + cache[ret'.key].outputTokens
          /\ hits' = hits + 1
          /\ cache'[ret'.key].hits = cache[ret'.key].hits + 1
          /\ misses' = misses
     ELSE /\ misses' = misses + 1
          /\ hits' = hits
          /\ savedTokens' = savedTokens
  /\ getCacheStats'.hits = hits' /\ getCacheStats'.misses = misses'
  /\ getCacheStats'.savedTokens = savedTokens'
  /\ getCacheStats'.size = Cardinality(ListKeys(lruNodes', lruHead'))
  /\ getCacheStats'.size = Cardinality(DOMAIN lastPut' \ {k \in Keys : ~lastPut'[k].present})

\* C16 as stated: every hit on an entry adds its input and output tokens to
\* savedTokens, one to hits and one to the entry's hits and leaves misses;
\* every lookup that is not a hit adds one to misses and leaves hits and
\* savedTokens; getCacheStats reports the counters and the number of entries.
C16_EveryLookupCounted ==
  [][ ret'.op = "get" => CountedOnce ]_vars

\* C16 amended: the same for lookups made while the cache is enabled (a
\* disabled cache answers null before looking and counts nothing).
C16_EnabledLookupCounted ==
  [][ (ret'.op = "get" /\ cacheConfig.enabled) => CountedOnce ]_vars

\* a hit after a miss: one miss, one hit, the tokens of the entry hit saved
C16_Witness ==
  /\ ret.op = "get" /\ ret.hit
  /\ hits = 1 /\ misses = 1
  /\ cache[ret.key].hits = 1
  /\ savedTokens = cache[ret.key].inputTokens + cache[ret.key].outputTokens
  /\ getCacheStats.size = 2

\* C14: when fn's fetchWithTimeout call exceeds its deadline and attempts
\* remain, withRetry sleeps (and then invokes fn again) instead of throwing
\* the timeout to its caller.
C14_DeadlineIsRetried ==
  (attempt \in deadlines /\ attempt < opts.maxAttempts) => rpc = "sleeping"

(***************************************************************************)
(* Claims about checkRateLimit (checked under SpecRate).                    *)
(***************************************************************************)
Configured == rateState.rateLimitSeconds # {}
IntervalMs == (CHOOSE n \in rateState.rateLimitSeconds : TRUE) * 1000
\* the time between the last recorded request and the call r
ElapsedAt(r) == r.calledAt - (CHOOSE t \in r.seen : TRUE)
AdmittedAtOnce(r) == r.pc = "admitted" /\ ~r.slept /\ r.doneAt = r.calledAt

\* what C13 says of the latest call r of a caller, where under tells whether
\* the elapsed time counts as under the interval
RateLimitContract(r, under) ==
  r.pc # "idle" =>
    IF ~Configured \/ r.seen = {} \/ ~under THEN AdmittedAtOnce(r)
    ELSE IF ~rateState.rateLimitWait
    THEN r.pc = "rejected" /\ r.doneAt = r.calledAt
    ELSE /\ r.pc \in {"sleeping", "admitted"}
         /\ r.slept
         /\ r.wakeAt >= r.calledAt + (IntervalMs - ElapsedAt(r))
         /\ r.pc = "admitted" => r.doneAt >= r.calledAt + (IntervalMs - ElapsedAt(r))

\* C13: with an interval configured, a call made when the time elapsed
\* since the last recorded request is under the interval is rejected at once
\* (waiting disabled) or returns only after sleeping at least the remaining
\* time (waiting enabled); a call made when the elapsed time is not under the
\* interval, or with no previous request, is admitted at once without
\* sleeping; with no interval configured every call is admitted at once.
C13_RateLimitGate ==
  \A c \in Callers :
    RateLimitContract(callers[c],
                      Configured /\ callers[c].seen # {}
                        /\ ElapsedAt(callers[c]) < IntervalMs)

\* the same with an elapsed time equal to the interval counted as under it
C13_GateUpToInterval ==
  \A c \in Callers :
    RateLimitContract(callers[c],
                      Configured /\ callers[c].seen # {}
                        /\ ElapsedAt(callers[c]) <= IntervalMs)

\* C32: with an interval configured and waiting enabled, no two calls of
\* checkRateLimit by concurrent requests are admitted less than
\* rateLimitSeconds apart.
C32_AdmissionsSpaced ==
  (Configured /\ rateState.rateLimitWait) =>
    \A c, d \in Callers :
      ( /\ c # d
        /\ callers[c].pc = "admitted" /\ callers[d].pc = "admitted"
        /\ callers[c].doneAt <= callers[d].doneAt )
      => callers[d].doneAt - callers[c].doneAt >= IntervalMs

\* what the code does keep: a call that finds a recorded request returns no
\* earlier than the interval after the timestamp it read
C32_SpacedFromTimestampRead ==
  (Configured /\ rateState.rateLimitWait) =>
    \A c \in Callers :
      (callers[c].pc = "admitted" /\ callers[c].seen # {})
      => \A t \in callers[c].seen : callers[c].doneAt - t >= IntervalMs

\* C37: a call of checkRateLimit that rejects the request leaves
\* lastRequestTimestamp unchanged, and lastRequestTimestamp changes only in a
\* step that admits a request, to the time of the admission.
C37_RejectionLeavesTimestamp ==
  [][ /\ \A c \in Callers :
           (callers'[c] # callers[c] /\ callers'[c].pc = "rejected")
           => rateState'.lastRequestTimestamp = rateState.lastRequestTimestamp
      /\ rateState'.lastRequestTimestamp # rateState.lastRequestTimestamp
           => /\ \E c \in Callers :
                   /\ callers'[c] # callers[c]
                   /\ callers'[c].pc = "admitted" /\ callers'[c].doneAt = clock
              /\ rateState'.lastRequestTimestamp = {clock} ]_vars

\* a request was rejected half a second after the recorded one, and a later
\* request was admitted at once on the same recorded timestamp
C37_Witness ==
  /\ Configured /\ ~rateState.rateLimitWait
  /\ \E c, d \in Callers :
       /\ callers[c].pc = "rejected" /\ callers[c].seen # {}
       /\ ElapsedAt(callers[c]) = 500
       /\ callers[d].pc = "admitted" /\ callers[d].seen = callers[c].seen
       /\ callers[d].calledAt > callers[c].calledAt
       /\ ~callers[d].slept

\* whether the block with index idx is open just before event i is emitted:
\* it was started and not stopped since its last start
OpenBefore(idx, i) ==
  \E j \in 1..(i - 1) :
    /\ events[j].type = "content_block_start" /\ events[j].index = idx
    /\ \A k \in (j + 1)..(i - 1) :
         ~(events[k].type = "content_block_stop" /\ events[k].index = idx)

\* C34: every content_block_delta is addressed to a block that is open when
\* the delta is emitted: none carries the index of a block already stopped or
\* not yet started.
C34_DeltasAddressOpenBlock ==
  \A i \in EventsOfType("content_block_delta") : OpenBefore(events[i].index, i)

\* the same for the events emitted up to the first finish reason
C34_UntilFinish ==
  \A i \in EventsOfType("content_block_delta") :
    (finishedAt = -1 \/ i <= finishedAt) => OpenBefore(events[i].index, i)

\* what the code does keep: a delta never names a block that was not started
C34_DeltasAddressStartedBlock ==
  \A i \in EventsOfType("content_block_delta") :
    \E j \in 1..(i - 1) :
      events[j].type = "content_block_start" /\ events[j].index = events[i].index

(***************************************************************************)
(* Pool store: pending saves (checked under SpecPoolSave).                  *)
(***************************************************************************)
\* C36: a recorded pending save is never stranded: whenever pendingSave is
\* true a debounce timer is armed or a write is in progress, also after a
\* failed savePoolStateImmediate.
C36_PendingSaveNotStranded ==
  pendingSave => (saveDebounceTimer.armed \/ writes # {})

\* what the code does keep: while no savePoolStateImmediate was called, a
\* pending save has its debounce timer armed
C36_PendingHasTimerBeforeFlush ==
  (pendingSave /\ ~saveHist.flushed) => saveDebounceTimer.armed

(***************************************************************************)
(* Claims about ensurePoolStateLoaded (checked under SpecEnsure).           *)
(***************************************************************************)
\* C33: for any number of concurrent callers of ensurePoolStateLoaded, the
\* pool file is read at most once, the account-pool shutdown handler is
\* registered at most once, and no load assigns the pool state after the
\* state was marked loaded.
C33_LoadedOnce ==
  /\ ensureHist.reads <= 1
  /\ ensureHist.registered <= 1
  /\ ~ensureHist.overwrote

\* what the code does keep: a call made after the state was marked loaded
\* reads nothing and registers nothing
C33_NoLoadOnceMarked ==
  [][ \A c \in EnsureCallers :
        (poolStateLoaded /\ loaders[c] = "idle" /\ loaders'[c] # "idle")
        => loaders'[c] = "done" /\ ensureHist' = ensureHist ]_vars

C19_ActiveViewIsCurrent ==
  poolRet.op = "getActiveAccounts"
    => poolRet.val = SelectSeq(poolState.accounts, eligible)

(***************************************************************************)
(* Claims about the saves of the pool store (checked under SpecPoolSave).   *)
(***************************************************************************)
\* the debounced saves whose document is being written
DebouncedWriting(ws) == {w \in ws : w.kind = "debounced" /\ w.stage = "writing"}

C18_FlushLosesNothing ==
  saveHist.flushDone => (poolFile.exists /\ poolFile.ver >= saveHist.flushVer)

\* savePoolStateImmediate cancels the pending timeout and begins its save at
\* once, whatever the debounce delay
C18_FlushIsImmediate ==
  [][ (~saveHist.flushed /\ saveHist'.flushed) =>
        /\ ~saveDebounceTimer'.armed
        /\ Save("immediate") \in writes' ]_vars

(***************************************************************************)
(* Streaming translator: whole conversations.                               *)
(***************************************************************************)
Shape(e) == [type |-> e.type, index |-> e.index, kind |-> e.kind]
Shapes(evs) == [i \in 1..Len(evs) |-> Shape(evs[i])]
DeltaPayloads(evs, kind) ==
  LET sel == SelectSeq(evs, LAMBDA e : e.type = "content_block_delta" /\ e.kind = kind)
  IN  [i \in 1..Len(sel) |-> sel[i].data]

\* a chunk carrying one non-empty text delta and nothing else
IsTextChunk(c) ==
  /\ c.choices = 1 /\ Present(c.content)
  /\ c.tool_calls = <<>> /\ ~Present(c.finish_reason)
\* a chunk carrying only the finish reason fr
IsFinishChunk(c, fr) ==
  /\ c.choices = 1 /\ ~Present(c.content)
  /\ c.tool_calls = <<>> /\ c.finish_reason = fr
\* the chunks fed so far are k >= 1 text deltas followed by finish_reason stop
TextRun ==
  /\ Len(fed) >= 2
  /\ \A i \in 1..(Len(fed) - 1) : IsTextChunk(fed[i])
  /\ IsFinishChunk(fed[Len(fed)], "stop")

\* C11: from a fresh connection, k >= 1 non-empty text deltas followed by a
\* chunk with finish_reason stop yield exactly message_start, a text
\* content_block_start at index 0, k text_delta events at index 0 carrying
\* the texts in arrival order, content_block_stop at index 0, message_delta
\* and message_stop, in this order and nothing else.
C11_TextRunEvents ==
  TextRun =>
    LET k == Len(fed) - 1
    IN  /\ Shapes(events) =
             << [type |-> "message_start", index |-> -1, kind |-> Null],
                [type |-> "content_block_start", index |-> 0, kind |-> "text"] >>
             \o [i \in 1..k |-> [type |-> "content_block_delta", index |-> 0,
                                 kind |-> "text_delta"]]
             \o << [type |-> "content_block_stop", index |-> 0, kind |-> Null],
                   [type |-> "message_delta", index |-> -1, kind |-> Null],
                   [type |-> "message_stop", index |-> -1, kind |-> Null] >>
        /\ DeltaPayloads(events, "text_delta") = [i \in 1..k |-> fed[i].content]

\* two different texts and then the finish reason have been translated
C11_Witness ==
  /\ TextRun
  /\ Len(fed) = 3
  /\ fed[1].content # fed[2].content

\* a chunk with one tool call that has an id and a name (a tool-call start)
IsToolStartChunk(c) ==
  /\ c.choices = 1 /\ ~Present(c.content) /\ ~Present(c.finish_reason)
  /\ Len(c.tool_calls) = 1
  /\ Present(c.tool_calls[1].id) /\ Present(c.tool_calls[1].name)
\* a chunk with one argument fragment for position p and nothing else
IsFragmentChunk(c, p) ==
  /\ c.choices = 1 /\ ~Present(c.content) /\ ~Present(c.finish_reason)
  /\ Len(c.tool_calls) = 1
  /\ c.tool_calls[1].index = p
  /\ ~Present(c.tool_calls[1].id) /\ ~Present(c.tool_calls[1].name)
  /\ Present(c.tool_calls[1].arguments)
\* the chunks fed so far are a tool-call start at some position, argument
\* fragments for that position, and finish_reason tool_calls
ToolRun ==
  /\ Len(fed) >= 2
  /\ IsToolStartChunk(fed[1])
  /\ \A i \in 2..(Len(fed) - 1) : IsFragmentChunk(fed[i], fed[1].tool_calls[1].index)
  /\ IsFinishChunk(fed[Len(fed)], "tool_calls")
\* the argument fragments of a tool run, in arrival order
Fragments ==
  (IF Present(fed[1].tool_calls[1].arguments)
   THEN << fed[1].tool_calls[1].arguments >> ELSE << >>)
  \o [i \in 1..(Len(fed) - 2) |-> fed[i + 1].tool_calls[1].arguments]

\* C12: from a fresh connection, a tool-call start at position p, argument
\* fragments for p and finish_reason tool_calls yield exactly one
\* content_block_start, of type tool_use, exactly one content_block_stop,
\* and the input_json_delta payloads in emission order are the argument
\* fragments in arrival order.
C12_ToolRunEvents ==
  ToolRun =>
    /\ Cardinality(EventsOfType("content_block_start")) = 1
    /\ \A i \in EventsOfType("content_block_start") :
         events[i].kind = "tool_use" /\ events[i].data = fed[1].tool_calls[1].id
    /\ Cardinality(EventsOfType("content_block_stop")) = 1
    /\ DeltaPayloads(events, "input_json_delta") = Fragments
    /\ DeltaPayloads(events, "text_delta") = << >>

\* a tool call was started, two different fragments arrived, and it finished
C12_Witness ==
  /\ ToolRun
  /\ Len(fed) = 4
  /\ fed[2] # fed[3]

(***************************************************************************)
(* Claims about the backoff delay (checked under SpecDelay).                *)
(***************************************************************************)
\* initialDelay * backoffMultiplier^(n-1), in milliseconds
BaseDelay(a, o) == o.initialDelayMs * Pow(o.backoffMultiplier, a - 1)
\* the delays the catch block can sleep after attempt a, over the draws
DelaysOf(a, o) == {calculateDelay(a, o, r) : r \in Randoms}

\* C22: the delay slept after failed attempt n is min(maxDelay, base adjusted
\* by a jitter of at most 20% of base either way), base being
\* initialDelay * backoffMultiplier^(n-1); it never exceeds maxDelay, and the
\* jitter covers the whole range: the smallest draw yields
\* min(maxDelay, base - 20%), the middle one min(maxDelay, base), and the
\* largest draws come closer to min(maxDelay, base + 20%) than to base + 10%.
C22_DelayIsJitteredBackoff ==
  lastDelay.attempt # 0 =>
    LET base == BaseDelay(lastDelay.attempt, delayOpts)
        cap  == delayOpts.maxDelayMs * 100
    IN  /\ lastDelay.delay <= cap
        /\ lastDelay.delay >= Min(cap, base * 80)
        /\ lastDelay.delay <= Min(cap, base * 120)
        /\ Min(cap, base * 80) \in DelaysOf(lastDelay.attempt, delayOpts)
        /\ Min(cap, base * 100) \in DelaysOf(lastDelay.attempt, delayOpts)
        /\ \E d \in DelaysOf(lastDelay.attempt, delayOpts) : d >= Min(cap, base * 115)

\* what the code computes: the jitter stays within 10% of base either way
C22_JitterWithinTenth ==
  lastDelay.attempt # 0 =>
    LET base == BaseDelay(lastDelay.attempt, delayOpts)
        cap  == delayOpts.maxDelayMs * 100
    IN  /\ lastDelay.delay <= cap
        /\ lastDelay.delay >= Min(cap, base * 90)
        /\ lastDelay.delay < Min(cap, base * 110) \/ lastDelay.delay = cap
        /\ Min(cap, base * 90) \in DelaysOf(lastDelay.attempt, delayOpts)

(***************************************************************************)
(* Claims about the token refresh (checked under SpecRefresh).              *)
(***************************************************************************)
ExchangesOf(c) == {j \in 1..Len(c.log) : c.log[j].ev = "exchange"}
\* the log of a run: exchange 1, then sleep(a * 5 s) and exchange a + 1 for
\* each failed attempt a, then the token stored if an exchange succeeded
WellPaced(c) ==
  /\ Cardinality(ExchangesOf(c)) <= 3
  /\ c.log[1].ev = "exchange" /\ c.log[1].n = 1
  /\ \A j \in 2..Len(c.log) :
       CASE c.log[j].ev = "exchange" ->
              /\ c.log[j - 1].ev = "sleep"
              /\ c.log[j - 1].n = (c.log[j].n - 1) * 5000
              /\ c.log[j - 2].ev = "exchange" /\ c.log[j - 2].n = c.log[j].n - 1
         [] c.log[j].ev = "sleep" -> c.log[j - 1].ev = "exchange"
         [] OTHER -> j = Len(c.log) /\ c.log[j - 1].ev = "exchange" /\ c.pc = "done"

RanIds == {ran[j].id : j \in 1..Len(ran)}
FailedRuns == {j \in 1..Len(ran) : ran[j].res = "failed"}

\* C24: a shutdown handler that throws or rejects does not stop the
\* sequence: the step in which it fails goes on to the handler after it (or,
\* after the last one, to process.exit(0)), and when the process exits with
\* code 0 every handler that followed a failing one has been run.
C24_FailureDoesNotStopShutdown ==
  [][ /\ (Len(ran') = Len(ran) + 1 /\ ran'[Len(ran')].res = "failed") =>
           IF sd.idx < Len(handlers)
           THEN /\ exitCode' = -1
                /\ sd'.pc = "calling" /\ sd'.idx = sd.idx + 1
           ELSE exitCode' = 0
      /\ exitCode' = 0 => owed' \subseteq {ran'[j].id : j \in 1..Len(ran')} ]_vars

\* the first of three handlers threw, the second rejected, the third ran,
\* and the process exited with code 0
C24_Witness ==
  /\ exitCode = 0
  /\ Len(handlers) = 3 /\ Len(ran) = 3
  /\ ran[1].res = "failed" /\ ran[2].res = "failed" /\ ran[3].res = "ok"
  /\ ran[3].id \in owed
  /\ handlers[1].priority < handlers[3].priority

\* the priority handler id was registered with
PriorityOf(id) == (CHOOSE i \in 1..Len(handlers) : handlers[i].id = id)
RunsInOrder ==
  \A j, k \in 1..Len(ran) :
    j < k => LET pj == handlers[PriorityOf(ran[j].id)].priority
                 pk == handlers[PriorityOf(ran[k].id)].priority
             IN  pj < pk \/ (pj = pk /\ ran[j].id < ran[k].id)

\* C38: gracefulShutdown runs the handlers one after another in ascending
\* priority, handlers of equal priority in registration order, and each
\* handler at most once however many signals arrive: a gracefulShutdown
\* call made during the shutdown runs nothing.
C38_OrderedAndOnce ==
  [][ /\ RunsInOrder'
      /\ \A j, k \in 1..Len(ran') : j # k => ran'[j].id # ran'[k].id
      /\ (isShuttingDown /\ signals' = signals + 1)
           => (ran' = ran /\ sd' = sd /\ exitCode' = exitCode) ]_vars

\* what the code does keep: a second signal runs nothing
C38_DuplicateSignalRunsNothing ==
  [][ (isShuttingDown /\ signals' = signals + 1)
        => (ran' = ran /\ sd' = sd /\ exitCode' = exitCode) ]_vars

\* C39: once gracefulShutdown has started the process eventually exits; it
\* exits with code 0 only after the loop has passed the last handler and
\* every handler it called has settled, and with code 1 only when the
\* force-exit timer fired while a handler was still awaited.
C39_ShutdownExits ==
  /\ isShuttingDown ~> (exitCode \in {0, 1})
  /\ [](exitCode = 0 => /\ sd.idx > Len(handlers) /\ sd.cur = 0
                        /\ Len(ran) = sd.idx - 1)
  /\ [](exitCode = 1 => /\ sd.cur # 0 /\ sd.idx <= Len(handlers)
                        /\ Len(ran) = sd.idx - 1)
  /\ [](exitCode # -1 => isShuttingDown /\ sd.pc = "exited")

\* one handler settled, the next one never did, and the timer ended the
\* process with code 1
C39_Witness ==
  /\ exitCode = 1
  /\ Len(ran) = 1 /\ sd.idx = 2
  /\ Len(handlers) = 3

(***************************************************************************)
(* Claims about the interval registry (checked under SpecRegistry).         *)
(***************************************************************************)
\* the live timers that were registered under name
LiveUnder(name) == {i \in 1..Len(timers) : timers[i].live /\ name \in timers[i].names}

\* C40: after any sequence of registry calls at most one live timer exists
\* per name and every live registered timer is in the registry; after
\* setupCopilotToken, however often it was called, exactly one
\* copilot-token-refresh timer is live, and after clearAllIntervals none of
\* the registered timers is.
C40_OneLiveTimerPerName ==
  /\ \A name \in IntervalNames : Cardinality(LiveUnder(name)) <= 1
  /\ \A i \in 1..Len(timers) :
       (timers[i].live /\ timers[i].names # {})
       => \E name \in DOMAIN intervals : intervals[name] = i
  /\ registryHist.op = "setup" =>
       /\ Cardinality(LiveUnder(REFRESH_INTERVAL_NAME)) = 1
       /\ LiveUnder(REFRESH_INTERVAL_NAME) = {intervals[REFRESH_INTERVAL_NAME]}
  /\ registryHist.op = "clearAll" =>
       /\ intervals = EmptyMap
       /\ \A i \in 1..Len(timers) : timers[i].names # {} => ~timers[i].live

\* setupCopilotToken ran three times: the first two timers are cleared, the
\* third is the live one
C40_Witness ==
  /\ registryHist.op = "setup"
  /\ Len(timers) = 3
  /\ \A i \in 1..3 : timers[i].names = {REFRESH_INTERVAL_NAME}
  /\ ~timers[1].live /\ ~timers[2].live /\ timers[3].live

(***************************************************************************)
(* Claims about saveCache and the dirty flag (checked under SpecSave).      *)
(***************************************************************************)
\* the step is a saveCache call (one that returned at once on a clear flag
\* right after another such call changes nothing and is not told apart)
SaveStep == ret'.op = "save" /\ (ret' # ret \/ saves' # saves)
\* the step began a disk write
WriteBegan == cacheWrites' # cacheWrites /\ saves' = saves + 1
\* the step is the failure of a write
FailStep == sinceSave'.failed # sinceSave.failed
DirtyGate ==
  /\ SaveStep => /\ WriteBegan <=> isDirty
                 /\ WriteBegan => ~isDirty'
  /\ FailStep => isDirty'

\* C21 as stated: saveCache begins a disk write only when the dirty flag is
\* set; if no cache operation has run since the last successful save, a
\* saveCache call performs no write; a started write clears the flag, and a
\* failed write sets it again, so that the next saveCache writes again.
C21_WritesOnlyAfterOperations ==
  [][ /\ DirtyGate
      /\ (SaveStep /\ ~sinceSave.ops) => ~WriteBegan ]_vars

\* C21 amended: the same, the idle case being: no cache operation has run
\* and no write has failed since the last successful save began.
C21_WritesOnlyWhenDirty ==
  [][ /\ DirtyGate
      /\ (SaveStep /\ ~sinceSave.ops /\ ~sinceSave.fails) => ~WriteBegan ]_vars

\* a write failed, the next saveCache wrote again and that write succeeded;
\* a saveCache call after it found the flag clear and wrote nothing
C21_Witness ==
  /\ ret.op = "save" /\ ~ret.hit
  /\ sinceSave.failed = {1} /\ saves = 2
  /\ ~sinceSave.ops /\ ~sinceSave.fails
  /\ cacheWrites = {} /\ cacheFile.exists /\ ~isDirty
  /\ cacheFile.entries = EntriesOf(cacheKeys, cache) /\ cacheKeys # << >>

(***************************************************************************)
(* Claims about the recency list and loadCache (checked under SpecLru).     *)
(***************************************************************************)
\* the keys met from a node along next, in order, at most n of them
RECURSIVE WalkNext(_, _, _)
WalkNext(nodes, k, n) ==
  IF k = Null \/ n = 0 \/ k \notin DOMAIN nodes THEN << >>
  ELSE << k >> \o WalkNext(nodes, nodes[k].next, n - 1)
Reverse(q) == [i \in 1..Len(q) |-> q[Len(q) + 1 - i]]
Range(q) == {q[i] : i \in 1..Len(q)}

\* C30: the recency list and the key map agree: the list from head to tail
\* holds each cached key exactly once and no other key, the node index has
\* exactly the cached keys, head has no predecessor, tail no successor, and
\* the prev pointers from tail visit the same nodes in reverse.
C30_ListAgreesWithMap ==
  LET n   == Cardinality(Keys) + 1
      fwd == WalkNext(lruNodes, lruHead, n)
      bwd == WalkBack(lruNodes, lruTail, n)
  IN  /\ DOMAIN lruNodes = DOMAIN cache
      /\ Len(fwd) = Cardinality(DOMAIN cache)
      /\ Range(fwd) = DOMAIN cache
      /\ bwd = Reverse(fwd)
      /\ (lruHead = Null) = (cache = EmptyMap)
      /\ (lruTail = Null) = (cache = EmptyMap)
      /\ lruHead # Null => lruHead \in DOMAIN lruNodes /\ lruNodes[lruHead].prev = Null
      /\ lruTail # Null => lruTail \in DOMAIN lruNodes /\ lruNodes[lruTail].next = Null
      /\ fwd # << >> => fwd[Len(fwd)] = lruTail

\* three entries were loaded from a file, one was read and moved to the
\* front, and one was deleted from the middle of the list
C30_Witness ==
  /\ restarts = 1 /\ readsAsDocument(cacheFile) /\ Len(cacheFile.entries) = 3
  /\ ret.op = "delete" /\ ret.hit
  /\ Cardinality(DOMAIN cache) = 2
  /\ hits = 2

\* the step is a run of loadCache on a file that is missing or malformed
MissingOrMalformed(doc) == ~doc.exists \/ doc.form \in {"unparsable", "wrongShape"}
BadLoadStep == restarts' = restarts + 1 /\ MissingOrMalformed(cacheFile')

\* C29: when the cache file is missing or malformed, loadCache leaves the
\* cache and the recency list empty and consistent (its catch clause ends
\* every failure: nothing is thrown to initCache), and set and get work as
\* usual afterwards: the list and the map stay in agreement, a stored
\* response is cached at the front of the list and returned by a lookup
\* within the TTL.
C29_BadFileStartsEmpty ==
  [][ /\ BadLoadStep =>
           /\ cache' = EmptyMap /\ lruNodes' = EmptyMap
           /\ lruHead' = Null /\ lruTail' = Null
           /\ ret'.op = "load"
      /\ (restarts = 1 /\ MissingOrMalformed(cacheFile)) =>
           /\ C30_ListAgreesWithMap'
           /\ (ret'.op = "set" /\ cacheConfig.enabled) =>
                /\ ret'.key \in DOMAIN cache' /\ lruHead' = ret'.key
                /\ cache'[ret'.key].response = lastPut'[ret'.key].response
           /\ ( /\ ret'.op = "get" /\ (hits' # hits \/ misses' # misses)
                /\ lastPut[ret'.key].present
                /\ now' - lastPut[ret'.key].createdAt <= TtlMs )
              => ret'.hit /\ ret'.response = lastPut[ret'.key].response ]_vars

\* the process started on a malformed file while entries were cached, then
\* stored two responses and read the older one back
C29_Witness ==
  /\ restarts = 1 /\ cacheFile.form = "wrongShape"
  /\ ret.op = "get" /\ ret.hit
  /\ Cardinality(DOMAIN cache) = 2
  /\ lruHead = ret.key /\ cache[ret.key].hits = 1

(***************************************************************************)
(* Response cache: the dirty flag (checked under SpecPersist).              *)
(***************************************************************************)
\* the entries and the statistics a document holds; a missing or unreadable
\* file holds none
DocCache(doc) ==
  IF readsAsDocument(doc)
  THEN [k \in {doc.entries[i].key : i \in 1..Len(doc.entries)} |->
          (CHOOSE x \in {doc.entries[i] : i \in 1..Len(doc.entries)} : x.key = k).e]
  ELSE EmptyMap
DocStats(doc) == IF readsAsDocument(doc) THEN doc.stats ELSE NoStats
\* the step is a cache operation that changes data saveCache writes
ChangesSavedData ==
  /\ restarts' = restarts
  /\ cache' # cache \/ hits' # hits \/ misses' # misses \/ savedTokens' # savedTokens

\* C35: every cache operation that changes the entry set, an entry's fields
\* or the hits, misses and savedTokens counters sets the dirty flag, and
\* whenever the flag is clear and no write is in flight the persisted
\* document equals the entries and statistics in memory.
C35_DirtyCoversChanges ==
  [][ /\ ChangesSavedData => isDirty'
      /\ (~isDirty' /\ cacheWrites' = {}) =>
           /\ DocCache(cacheFile') = cache'
           /\ DocStats(cacheFile') =
                [hits |-> hits', misses |-> misses', savedTokens |-> savedTokens'] ]_vars

(***************************************************************************)
(* Response cache: the size bound (checked under SpecLru).                  *)
(***************************************************************************)
\* C31: after every setCachedResponse, updateCacheConfig and loadCache of a
\* persisted file, the number of stored entries is at most the configured
\* maxSize.
C31_SizeWithinMaxSize ==
  [][ ret'.op \in {"set", "config", "load"}
        => Cardinality(DOMAIN cache') <= cacheConfig'.maxSize ]_vars

\* what the code does keep: evictLRU ends setCachedResponse and
\* updateCacheConfig, so the bound holds after each of them, also when a
\* load left more entries than maxSize
C31_SetAndConfigWithinMaxSize ==
  [][ ret'.op \in {"set", "config"}
        => Cardinality(DOMAIN cache') <= cacheConfig'.maxSize ]_vars

(***************************************************************************)
(* Response cache: replacing an entry (checked under SpecCache).            *)
(***************************************************************************)
\* C28: setCachedResponse on a key that is already present replaces the
\* payload, resets createdAt, lastAccessed and the entry's hit count, moves
\* the key to the most recently used position, leaves the number of entries
\* unchanged and evicts nothing (the size being within maxSize).
C28_SetReplacesInPlace ==
  [][ ( /\ ret'.op = "set"
        /\ ret'.key \in DOMAIN cache
        /\ Cardinality(DOMAIN cache) <= cacheConfig.maxSize )
      => LET k == ret'.key
         IN  /\ \E p \in Payloads :
                   cache'[k] = [response |-> p.response, inputTokens |-> p.inputTokens,
                                outputTokens |-> p.outputTokens, createdAt |-> now',
                                lastAccessed |-> now', hits |-> 0]
             /\ cache'[k].response = lastPut'[k].response
             /\ lruHead' = k
             /\ lruNodes'[k].prev = Null
             /\ DOMAIN cache' = DOMAIN cache
             /\ ret'.evicted = << >>
             /\ \A x \in (DOMAIN cache) \ {k} : cache'[x] = cache[x] ]_vars

\* the least recently used of two entries, read once and one second old, was
\* replaced by another payload and is now the most recently used
C28_Witness ==
  /\ ret.op = "set" /\ ret.hitsBefore = 1 /\ ret.lruBefore = ret.key
  /\ Cardinality(DOMAIN cache) = 2
  /\ lruHead = ret.key /\ lruTail # ret.key
  /\ cache[ret.key].hits = 0 /\ cache[ret.key].createdAt = now /\ now = 1000

(***************************************************************************)
(* Streaming translator: what one chunk emits.                              *)
(***************************************************************************)
\* the events the step emitted, without the message_start of a first chunk
Emitted ==
  SelectSeq(SubSeq(events', Len(events) + 1, Len(events')),
            LAMBDA e : e.type # "message_start")
\* the chunk the step translated
Arrived(c) == fed' = Append(fed, c)
\* the last content_block_start emitted so far
LastStart ==
  LET starts == EventsOfType("content_block_start")
  IN  events[CHOOSE i \in starts : \A j \in starts : j <= i]
\* the type of the block that is open: text, tool_use, or Null when none is
OpenKind == IF state.contentBlockOpen /\ EventsOfType("content_block_start") # {}
            THEN LastStart.kind ELSE Null
IsPrefix(a, b) == Len(a) <= Len(b) /\ SubSeq(b, 1, Len(a)) = a
\* what the claim says a text delta yields in the current state
TextDeltaEvents ==
  CASE OpenKind = "tool_use" ->
         << [type |-> "content_block_stop", index |-> LastStart.index, kind |-> Null],
            [type |-> "content_block_start", index |-> LastStart.index + 1, kind |-> "text"],
            [type |-> "content_block_delta", index |-> LastStart.index + 1,
             kind |-> "text_delta"] >>
    [] OpenKind = "text" ->
         << [type |-> "content_block_delta", index |-> LastStart.index,
             kind |-> "text_delta"] >>
    [] OTHER ->
         << [type |-> "content_block_start", index |-> state.contentBlockIndex,
             kind |-> "text"],
            [type |-> "content_block_delta", index |-> state.contentBlockIndex,
             kind |-> "text_delta"] >>
TextDeltaContract(c) ==
  /\ IsPrefix(TextDeltaEvents, Shapes(Emitted))
  /\ IsTextChunk(c) => Shapes(Emitted) = TextDeltaEvents

\* C25: a non-empty text delta arriving while a tool-call block with index i
\* is open emits content_block_stop(i), a text content_block_start at i+1 and
\* the text delta at i+1, in this order; arriving while a text block is open
\* it emits only the delta; arriving while no block is open it emits
\* content_block_start followed by the delta.
C25_TextDeltaEvents ==
  [][ \A c \in Chunks :
        (Arrived(c) /\ c.choices > 0 /\ Present(c.content)) => TextDeltaContract(c) ]_vars

\* the same, for the chunks that arrive before the first finish reason
C25_UntilFinish ==
  [][ \A c \in Chunks :
        (Arrived(c) /\ c.choices > 0 /\ Present(c.content) /\ finishedAt = -1)
          => TextDeltaContract(c) ]_vars

\* C26: when the chunk with the first finish reason is translated, an open
\* block is closed first, then message_delta and message_stop are emitted, in
\* this order, as the last events of the chunk; at message_stop every
\* content_block_start emitted so far has exactly one content_block_stop
\* with the same index, emitted after it.
C26_FinishClosesThenStops ==
  [][ (finishedAt = -1 /\ finishedAt' # -1) =>
        LET n == Len(events')
            starts == {i \in 1..n : events'[i].type = "content_block_start"}
            stops  == {i \in 1..n : events'[i].type = "content_block_stop"}
        IN  /\ n >= Len(events) + 2
            /\ events'[n].type = "message_stop"
            /\ events'[n - 1].type = "message_delta"
            /\ \A i \in 1..(n - 2) :
                 events'[i].type \notin {"message_stop", "message_delta"}
            /\ state.contentBlockOpen =>
                 \E j \in stops : j > Len(events) /\ events'[j].index = LastStart.index
            /\ \A i \in starts :
                 Cardinality({j \in stops : events'[j].index = events'[i].index}) = 1
                 /\ \E j \in stops : j > i /\ events'[j].index = events'[i].index ]_vars

\* a text block and a tool block were emitted and the finish reason arrived
\* while the second was open
C26_Witness ==
  /\ finishedAt = Len(events)
  /\ Len(fed) = 3
  /\ Cardinality(EventsOfType("content_block_start")) = 2
  /\ Cardinality(EventsOfType("content_block_stop")) = 2
  /\ events[finishedAt - 2].type = "content_block_stop"
  /\ IsFinishChunk(fed[3], "tool_calls")

\* C27: a tool-call delta that carries only argument text for a position
\* with no recorded tool call produces no event and leaves the open flag,
\* the block index and the tool-call mapping unchanged.
C27_UnknownPositionDropped ==
  [][ \A c \in Chunks :
        ( /\ Arrived(c)
          /\ \E p \in 0..1 : IsFragmentChunk(c, p) /\ p \notin DOMAIN state.toolCalls )
        => /\ Emitted = << >>
           /\ state'.contentBlockOpen = state.contentBlockOpen
           /\ state'.contentBlockIndex = state.contentBlockIndex
           /\ state'.toolCalls = state.toolCalls ]_vars

\* a fragment for position 1 arrived while only position 0 was recorded and
\* its block was open
C27_Witness ==
  /\ Len(fed) = 2
  /\ IsToolStartChunk(fed[1]) /\ fed[1].tool_calls[1].index = 0
  /\ IsFragmentChunk(fed[2], 1)
  /\ state.contentBlockOpen
  /\ DOMAIN state.toolCalls = {0}

=============================================================================
